---------------------------- MODULE Spec2Model ----------------------------
(***************************************************************************)
(* The caching layer and the webhook endpoint of the Customer Insights     *)
(* app (src/stripe-customer-insights-app/src/api/stripeClient.ts).         *)
(*                                                                         *)
(* A fetchCustomerDataWithCache call is an async function: its body up to  *)
(* the await runs as one step, the upstream answer is a second step, and   *)
(* the continuation after the await (cache.set, return) is a third.  The   *)
(* webhook endpoint is an async handler: everything up to the await of     *)
(* handleWebhook is one step, the continuation after it is another.        *)
(***************************************************************************)
EXTENDS Integers, Sequences, FiniteSets, TLC

\* ------------------------------------------------------------------ bounds
NumCalls == 2
MaxTicks == 2
MaxVersion == 1
NumDeliveries == 2
PageLimit == 2
MaxItems == 5
MaxChanges == 3
MaxLoads == 3
MaxAnalyses == 2

\* ------------------------------------------------------------------ domain
Customers == {"cus_A", "cus_B"}
Calls == 1..NumCalls
Deliveries == 1..NumDeliveries
Loads == 1..MaxLoads
Analyses == 1..MaxAnalyses

\* const CACHE_TTL = 5 * 60 * 1000
CACHE_TTL == 5 * 60 * 1000

\* The amounts by which Date.now() advances between two steps.
TickSteps == {CACHE_TTL \div 2}

\* A StripeCustomerData snapshot: the customer it belongs to and the revision
\* of the upstream records it was read from.
Snapshot(id, v) == [customer |-> id, version |-> v]
NoData == [customer |-> "", version |-> -1]
NoEntry == [data |-> NoData, timestamp |-> -1]

VARIABLES
    cache,            \* Map<string, {data, timestamp}>: a function on its keys
    now,              \* Date.now()
    ticks,            \* how often the clock has advanced
    upstream,         \* the revision of the account's records at Stripe
    calls,            \* the fetchCustomerDataWithCache invocations
    processedEvents,  \* Set<string> of handled event ids
    deliveries,       \* the requests the webhook endpoint handles
    lastStore,        \* history: per key, what the last store wrote, if no
                      \*   invalidateCache of the key followed it
    track,            \* whether a behaviour records the two histories below
    staleEntries,     \* history: keys whose entry was read before an invalidation
    pendingInval,     \* history: keys invalidated since the last call for them
    account,          \* the records Stripe holds for the customer being collected
    fetches,          \* the five fetches of one fetchCustomerData call
    outcome,          \* what that fetchCustomerData call returned or threw
    data,             \* the StripeCustomerData handed to the calculations
    clock,            \* Date.now() / 1000 at the time of the calculations
    changes,          \* how often the records in data have changed
    insights,         \* the CustomerInsights calculated from data
    mounted,          \* whether the CustomerInsights view has run its first effect
    viewCustomerId,   \* useCustomerId() of the view, "" while undefined
    state,            \* the AppState of the view
    loads,            \* the loadInsights invocations of the view, in order
    records,          \* the charges and subscriptions Stripe holds per customer
    detailsMounted,   \* whether the CustomerDetails view has run its first effect
    detailsCustomerId,\* environment?.objectContext?.id of that view, "" while undefined
    statusInfo,       \* its StatusInfo | null
    loading,          \* its loading flag
    analyses          \* its analyzeCustomer invocations, in order

cacheVars == <<cache, now, ticks, upstream, calls, lastStore, staleEntries, pendingInval>>
hookVars == <<processedEvents, deliveries>>
collectVars == <<account, fetches, outcome>>
calcVars == <<data, clock, changes, insights>>
viewVars == <<mounted, viewCustomerId, state, loads>>
badgeVars == <<records, detailsMounted, detailsCustomerId, statusInfo, loading, analyses>>
restVars == <<collectVars, calcVars, viewVars, badgeVars>>
vars == <<cache, now, ticks, upstream, calls, processedEvents, deliveries,
          lastStore, track, staleEntries, pendingInval,
          account, fetches, outcome, data, clock, changes, insights,
          mounted, viewCustomerId, state, loads,
          records, detailsMounted, detailsCustomerId, statusInfo, loading, analyses>>

\* ------------------------------------------------------------ the Map cache
CacheHas(c, id) == id \in DOMAIN c

\* cache.get(id): undefined is NoEntry
CacheGet(c, id) == IF id \in DOMAIN c THEN c[id] ELSE NoEntry

\* CacheSet that keeps an entry the key already has.
CacheSet_KeepFirst(c, id, entry) ==
    [k \in (DOMAIN c) \cup {id} |-> IF k \in DOMAIN c THEN c[k] ELSE entry]

\* cache.set(id, entry)
CacheSet(c, id, entry) ==
    [k \in (DOMAIN c) \cup {id} |-> IF k = id THEN entry ELSE c[k]]

\* CacheDelete that clears the whole map.
CacheDelete_Clear(c, id) == << >>

\* cache.delete(id)
CacheDelete(c, id) == [k \in (DOMAIN c) \ {id} |-> c[k]]

\* IsFresh with <= for <, and with half the TTL.
IsFresh_Inclusive(c, id, t) == CacheHas(c, id) /\ t - c[id].timestamp <= CACHE_TTL
IsFresh_ShortTTL(c, id, t) ==
    CacheHas(c, id) /\ t - c[id].timestamp < CACHE_TTL \div 2

\* cached && Date.now() - cached.timestamp < CACHE_TTL
IsFresh(c, id, t) == CacheHas(c, id) /\ t - c[id].timestamp < CACHE_TTL

\* export function invalidateCache(customerId)
invalidateCache(c, id) == CacheDelete(c, id)

\* ------------------------------------------------------------------- calls
IdleCall ==
    [pc |-> "idle", id |-> "", bypass |-> FALSE, data |-> NoData,
     result |-> NoData, requests |-> 0, sawEntry |-> FALSE,
     readBeforeInval |-> FALSE]

\* CacheHit that looks into the cache whatever bypassCache says.
CacheHit_IgnoreBypass(c, id, t, bypass) == IsFresh(c, id, t)

\* if (!bypassCache) { cached && Date.now() - cached.timestamp < CACHE_TTL }
CacheHit(c, id, t, bypass) == ~bypass /\ IsFresh(c, id, t)

\* fetchCustomerDataWithCache, lines 271-280: the cache lookup and, on a miss
\* (or bypassCache), the call of fetchCustomerData, up to the await.
CallStart(c, id, bypass) ==
    /\ calls[c].pc = "idle"
    /\ \A k \in 1..(c - 1) : calls[k].pc # "idle"
    /\ LET hit == CacheHit(cache, id, now, bypass)
           started == [calls[c] EXCEPT
                         !.id = id,
                         !.sawEntry = ~bypass /\ CacheHas(cache, id)]
       IN calls' = [calls EXCEPT ![c] =
              IF hit
              THEN [IdleCall EXCEPT !.pc = "returned", !.id = id,
                                    !.bypass = bypass,
                                    !.result = CacheGet(cache, id).data]
              ELSE [started EXCEPT !.pc = "fetching", !.bypass = bypass,
                                   !.requests = @ + 1]]
    /\ pendingInval' = pendingInval \ {id}
    /\ UNCHANGED <<cache, now, ticks, upstream, lastStore, staleEntries>>
    /\ UNCHANGED <<hookVars, track, restVars>>

\* fetchCustomerData, lines 53-67: Stripe answers the requests with the
\* customer's records as they are at that moment.
UpstreamRespond(c) ==
    /\ calls[c].pc = "fetching"
    /\ calls' = [calls EXCEPT ![c].pc = "fetched",
                              ![c].data = Snapshot(calls[c].id, upstream)]
    /\ UNCHANGED <<cache, now, ticks, upstream, lastStore, staleEntries, pendingInval>>
    /\ UNCHANGED <<hookVars, track, restVars>>

\* fetchCustomerData, lines 68-71: a request fails, the call throws and
\* fetchCustomerDataWithCache propagates the error past cache.set.
FetchFail(c) ==
    /\ calls[c].pc = "fetching"
    /\ calls' = [calls EXCEPT ![c] =
                   [IdleCall EXCEPT !.pc = "thrown", !.id = calls[c].id,
                                    !.requests = calls[c].requests]]
    /\ UNCHANGED <<cache, now, ticks, upstream, lastStore, staleEntries, pendingInval>>
    /\ UNCHANGED <<hookVars, track, restVars>>

\* fetchCustomerDataWithCache, lines 282-287: the continuation after the await.
Store(c) ==
    /\ calls[c].pc = "fetched"
    /\ cache' = CacheSet(cache, calls[c].id,
                         [data |-> calls[c].data, timestamp |-> now])
    /\ calls' = [calls EXCEPT ![c] =
                   [IdleCall EXCEPT !.pc = "returned", !.id = calls[c].id,
                                    !.bypass = calls[c].bypass,
                                    !.result = calls[c].data,
                                    !.requests = calls[c].requests,
                                    !.sawEntry = calls[c].sawEntry]]
    /\ lastStore' = [lastStore EXCEPT ![calls[c].id] =
                         [data |-> calls[c].data, timestamp |-> now]]
    /\ staleEntries' = IF calls[c].readBeforeInval
                       THEN staleEntries \cup {calls[c].id}
                       ELSE staleEntries \ {calls[c].id}
    /\ UNCHANGED <<now, ticks, upstream, pendingInval>>
    /\ UNCHANGED <<hookVars, track, restVars>>

\* invalidateCache(id), called by a webhook handler or any other importer.
InvalidateCacheCall(id) ==
    /\ cache' = invalidateCache(cache, id)
    /\ lastStore' = [lastStore EXCEPT ![id] = NoEntry]
    /\ staleEntries' = staleEntries \ {id}
    /\ pendingInval' = IF track THEN pendingInval \cup {id} ELSE pendingInval
    /\ calls' = [c \in Calls |->
                   IF track /\ calls[c].id = id /\ calls[c].pc = "fetched"
                   THEN [calls[c] EXCEPT !.readBeforeInval = TRUE]
                   ELSE calls[c]]
    /\ UNCHANGED <<now, ticks, upstream>>
    /\ UNCHANGED <<hookVars, track, restVars>>

\* Date.now() advances.
Tick(d) ==
    /\ ticks < MaxTicks
    /\ now' = now + d
    /\ ticks' = ticks + 1
    /\ UNCHANGED <<cache, upstream, calls, lastStore, staleEntries, pendingInval>>
    /\ UNCHANGED <<hookVars, track, restVars>>

\* The account's records change at Stripe (a payment, an update, ...).
UpstreamChange ==
    /\ upstream < MaxVersion
    /\ upstream' = upstream + 1
    /\ UNCHANGED <<cache, now, ticks, calls, lastStore, staleEntries, pendingInval>>
    /\ UNCHANGED <<hookVars, track, restVars>>

\* ---------------------------------------------------------------- webhooks
\* event.data.object: a Customer (its own id), or a Charge / Subscription whose
\* customer is null, an id string or an expanded object; `defined` is FALSE for
\* an event that carries no object.
NullRef == [kind |-> "null", id |-> ""]
StringRef(id) == [kind |-> "string", id |-> id]
ObjectRef(id) == [kind |-> "object", id |-> id]
NoObject == [defined |-> FALSE, id |-> "", customer |-> NullRef]
CustomerObject(id) == [defined |-> TRUE, id |-> id, customer |-> NullRef]
PaymentObject(oid, ref) == [defined |-> TRUE, id |-> oid, customer |-> ref]

Event(eid, type, object) == [id |-> eid, type |-> type, object |-> object]
NoEvent == Event("", "", NoObject)

\* The notifications Stripe may send; an event id names one event.
Events ==
    { Event("evt_1", "customer.created", CustomerObject("cus_A")),
      Event("evt_2", "customer.updated", CustomerObject("cus_A")),
      Event("evt_3", "charge.succeeded", PaymentObject("ch_1", StringRef("cus_B"))),
      Event("evt_4", "charge.failed", PaymentObject("ch_2", ObjectRef("cus_A"))),
      Event("evt_5", "subscription.created", PaymentObject("sub_1", StringRef("cus_A"))),
      Event("evt_6", "subscription.deleted", PaymentObject("sub_2", ObjectRef("cus_B"))),
      Event("evt_7", "charge.succeeded", PaymentObject("ch_3", NullRef)),
      Event("evt_8", "invoice.paid", PaymentObject("in_1", StringRef("cus_A"))),
      Event("evt_9", "customer.updated", NoObject),
      Event("evt_10", "subscription.deleted", PaymentObject("sub_3", NullRef)) }

\* process.env.STRIPE_WEBHOOK_SECRET, and a secret that is not it.
WebhookSecret == "whsec_endpoint"
OtherSecret == "whsec_other"

\* The Stripe-Signature header of a payload signed with a secret.
Sign(payload, secret) == [signed |-> payload, key |-> secret]

\* The requests the endpoint may receive: Stripe's own, one whose signature was
\* made with another secret, and one whose body was altered after signing.
Request(kind, body, signature) ==
    [kind |-> kind, body |-> body, signature |-> signature]
Requests ==
    { Request("genuine", e, Sign(e, WebhookSecret)) : e \in Events }
    \cup { Request("wrong_secret", e, Sign(e, OtherSecret)) : e \in Events }
    \cup { Request("tampered", e[1], Sign(e[2], WebhookSecret)) :
             e \in {p \in Events \X Events : p[1] # p[2]} }

\* Error messages, as the words they are made of.
InvalidSignatureMessage == <<"Invalid", "webhook", "signature">>
TypeErrorMessage(prop) ==
    <<"Cannot", "read", "properties", "of", "undefined", "(reading", prop, ")">>
NoError == << >>

\* error.message.includes(word)
Includes(message, word) == \E i \in 1..Len(message) : message[i] = word

\* stripe.webhooks.constructEvent(payload, signature, secret)
constructEvent(payload, signature, secret) ==
    IF signature = Sign(payload, secret)
    THEN [event |-> payload, error |-> NoError]
    ELSE [event |-> NoEvent, error |-> <<"No", "signatures", "found", "matching",
                                          "the", "expected", "signature">>]

\* verifyWebhookSignature that parses the payload without verifying it.
verifyWebhookSignature_Unchecked(payload, signature, secret) ==
    [event |-> payload, error |-> NoError]

\* verifyWebhookSignature: any error of constructEvent becomes
\* Error('Invalid webhook signature').
verifyWebhookSignature(payload, signature, secret) ==
    LET r == constructEvent(payload, signature, secret)
    IN IF r.error = NoError THEN r
       ELSE [event |-> NoEvent, error |-> InvalidSignatureMessage]

\* What a handler leaves behind: the cache, the invalidateCache calls it made
\* and the error it threw (NoError when it returned).
Handled(c, invalidated, error) ==
    [cache |-> c, invalidated |-> invalidated, error |-> error]

\* CustomerIdOf that takes the customer only when it is an id string.
CustomerIdOf_StringOnly(object) ==
    IF object.customer.kind = "string" THEN object.customer.id ELSE ""

\* typeof x.customer === 'string' ? x.customer : x.customer?.id
CustomerIdOf(object) ==
    IF object.customer.kind = "string" THEN object.customer.id
    ELSE IF object.customer.kind = "object" THEN object.customer.id
    ELSE ""

handleCustomerCreated(c, customer) ==
    IF ~customer.defined THEN Handled(c, << >>, TypeErrorMessage("id"))
    ELSE Handled(c, << >>, NoError)

handleCustomerUpdated(c, customer) ==
    IF ~customer.defined THEN Handled(c, << >>, TypeErrorMessage("id"))
    ELSE Handled(invalidateCache(c, customer.id), <<customer.id>>, NoError)

\* handleChargeSucceeded, handleChargeFailed, handleSubscriptionCreated and
\* handleSubscriptionDeleted share one body.
handlePaymentObject_Unguarded(c, object) ==
    IF ~object.defined THEN Handled(c, << >>, TypeErrorMessage("customer"))
    ELSE Handled(invalidateCache(c, CustomerIdOf(object)), <<CustomerIdOf(object)>>,
                 NoError)
handlePaymentObject(c, object) ==
    IF ~object.defined THEN Handled(c, << >>, TypeErrorMessage("customer"))
    ELSE LET customerId == CustomerIdOf(object)
         IN IF customerId = "" THEN Handled(c, << >>, NoError)
            ELSE Handled(invalidateCache(c, customerId), <<customerId>>, NoError)

handleChargeSucceeded(c, charge) == handlePaymentObject(c, charge)
handleChargeFailed(c, charge) == handlePaymentObject(c, charge)
handleSubscriptionCreated(c, subscription) == handlePaymentObject(c, subscription)
handleSubscriptionDeleted(c, subscription) == handlePaymentObject(c, subscription)

\* handleWebhook whose default case throws.
handleWebhook_Strict(c, event) ==
    CASE event.type = "customer.created" -> handleCustomerCreated(c, event.object)
      [] event.type = "customer.updated" -> handleCustomerUpdated(c, event.object)
      [] event.type \in {"charge.succeeded", "charge.failed", "subscription.created",
                         "subscription.deleted"} ->
             handlePaymentObject(c, event.object)
      [] OTHER -> Handled(c, << >>, <<"Unhandled", "event", "type">>)

\* handleWebhook: the switch on event.type
handleWebhook(c, event) ==
    CASE event.type = "customer.created" -> handleCustomerCreated(c, event.object)
      [] event.type = "customer.updated" -> handleCustomerUpdated(c, event.object)
      [] event.type = "charge.succeeded" -> handleChargeSucceeded(c, event.object)
      [] event.type = "charge.failed" -> handleChargeFailed(c, event.object)
      [] event.type = "subscription.created" ->
             handleSubscriptionCreated(c, event.object)
      [] event.type = "subscription.deleted" ->
             handleSubscriptionDeleted(c, event.object)
      [] OTHER -> Handled(c, << >>, NoError)

\* isEventProcessed that never finds an id, markEventProcessed that adds none.
isEventProcessed_Never(processed, eventId) == FALSE
markEventProcessed_Forget(processed, eventId) == processed

isEventProcessed(processed, eventId) == eventId \in processed
markEventProcessed(processed, eventId) == processed \cup {eventId}

\* CatchStatus without the test for a signature error.
CatchStatus_Always500(error) == 500

\* The status the catch block of the endpoint answers an error with.
CatchStatus(error) == IF Includes(error, "signature") THEN 400 ELSE 500

\* One request to the endpoint.  log lists, in order, what the handler has done
\* for it; kind is the request's provenance (history).
IdleDelivery ==
    [pc |-> "idle", kind |-> "", event |-> NoEvent, duplicate |-> FALSE,
     error |-> NoError, status |-> 0, log |-> << >>]

Did(op, arg) == <<op, arg>>
InvalidateLog(ids) == [i \in 1..Len(ids) |-> Did("invalidateCache", ids[i])]

\* createWebhookEndpoint, lines 586-600: verification, the duplicate check and
\* the call of handleWebhook, whose body runs up to the await.
EndpointReceive(d, req) ==
    /\ deliveries[d].pc = "idle"
    /\ \A k \in 1..(d - 1) : deliveries[k].pc # "idle"
    /\ LET v == verifyWebhookSignature(req.body, req.signature, WebhookSecret)
           h == handleWebhook(cache, v.event)
           got == [deliveries[d] EXCEPT !.kind = req.kind, !.event = v.event]
       IN IF v.error # NoError
          THEN /\ deliveries' = [deliveries EXCEPT ![d] =
                     [got EXCEPT !.pc = "done", !.status = CatchStatus(v.error),
                                 !.log = <<Did("respond", "error")>>]]
               /\ cache' = cache
          ELSE IF isEventProcessed(processedEvents, v.event.id)
          THEN /\ deliveries' = [deliveries EXCEPT ![d] =
                     [got EXCEPT !.pc = "done", !.duplicate = TRUE, !.status = 200,
                                 !.log = <<Did("respond", "received")>>]]
               /\ cache' = cache
          ELSE /\ deliveries' = [deliveries EXCEPT ![d] =
                     [got EXCEPT !.pc = "awaiting", !.error = h.error,
                                 !.log = <<Did("handleWebhook", v.event.type)>>
                                         \o InvalidateLog(h.invalidated)]]
               /\ cache' = h.cache
    /\ lastStore' = [id \in Customers |->
                       IF CacheHas(cache', id) THEN lastStore[id] ELSE NoEntry]
    /\ UNCHANGED <<processedEvents, now, ticks, upstream, calls, track,
                   staleEntries, pendingInval, restVars>>

\* createWebhookEndpoint, lines 602-617: the continuation after the await.
EndpointResume(d) ==
    /\ deliveries[d].pc = "awaiting"
    /\ IF deliveries[d].error = NoError
       THEN /\ processedEvents' =
                   markEventProcessed(processedEvents, deliveries[d].event.id)
            /\ deliveries' = [deliveries EXCEPT
                   ![d].pc = "done", ![d].status = 200,
                   ![d].log = @ \o <<Did("markEventProcessed", deliveries[d].event.id),
                                     Did("respond", "received")>>]
       ELSE /\ processedEvents' = processedEvents
            /\ deliveries' = [deliveries EXCEPT
                   ![d].pc = "done", ![d].status = CatchStatus(deliveries[d].error),
                   ![d].log = @ \o <<Did("respond", "error")>>]
    /\ UNCHANGED <<cacheVars, track, restVars>>

\* ------------------------------------------------------------ calculations
\* A Stripe.Charge, as far as the calculations read it; invoice "" is null.
Charge(id, status, amount, created) ==
    [id |-> id, status |-> status, amount |-> amount, amount_refunded |-> 0,
     invoice |-> "", disputed |-> FALSE, created |-> created, currency |-> "usd",
     payment_method_type |-> "card"]
\* A Stripe.Subscription with the price of its first item: interval "" and
\* interval_count 0 stand for a missing recurring price, unit_amount 0 for null.
Subscription(id, status, interval, interval_count, unit_amount, current_period_end) ==
    [id |-> id, status |-> status, interval |-> interval,
     interval_count |-> interval_count, unit_amount |-> unit_amount,
     current_period_end |-> current_period_end]
CustomerData(customer, charges, subscriptions) ==
    [customer |-> customer, charges |-> charges, subscriptions |-> subscriptions]
NoCustomerData == CustomerData([id |-> "", created |-> 0], << >>, << >>)
\* null, and a present value of a nullable field.
Null == [null |-> TRUE]
Value(v) == [value |-> v]
NoInsights == [defined |-> FALSE]

\* A JavaScript number that is a quotient of two integers.
Ratio(num, den) == [num |-> num, den |-> den]
\* The sum of two such numbers.
RatioAdd(x, y) == Ratio(x.num * y.den + y.num * x.den, x.den * y.den)
\* ratio > a / b, ratio < a / b
RatioGreater(ratio, a, b) == ratio.num * b > a * ratio.den
RatioLess(ratio, a, b) == ratio.num * b < a * ratio.den

\* cents / 100: the amount in the currency's major unit, as its whole part and
\* its hundredths.
CentsToDollars(cents) == [whole |-> cents \div 100, hundredths |-> cents % 100]

\* charges.reduce((sum, charge) => sum + charge.amount, 0)
RECURSIVE SumAmount(_)
SumAmount(charges) ==
    IF charges = << >> THEN 0
    ELSE SumAmount(SubSeq(charges, 1, Len(charges) - 1)) + charges[Len(charges)].amount

\* RefundedTotal over the succeeded charges only.
RefundedTotal_SucceededOnly(charges) ==
    SumAmount([i \in 1..Len(charges) |->
                 [amount |-> IF charges[i].status = "succeeded"
                             THEN charges[i].amount_refunded ELSE 0]])

\* charges.reduce((sum, charge) => sum + (charge.amount_refunded || 0), 0)
RefundedTotal(charges) ==
    SumAmount([i \in 1..Len(charges) |-> [amount |-> charges[i].amount_refunded]])

\* LifetimeTotal that forgets the refunds.
LifetimeTotal_Gross(oneTimeTotal, subscriptionTotal, refundedTotal) ==
    oneTimeTotal + subscriptionTotal

\* const total = oneTimeTotal + subscriptionTotal - refundedTotal
LifetimeTotal(oneTimeTotal, subscriptionTotal, refundedTotal) ==
    oneTimeTotal + subscriptionTotal - refundedTotal

calculateLifetimeValue(charges) ==
    LET successfulCharges == SelectSeq(charges, LAMBDA c : c.status = "succeeded")
        currency == IF successfulCharges # << >> /\ successfulCharges[1].currency # ""
                    THEN successfulCharges[1].currency ELSE "usd"
        oneTimeTotal == SumAmount(SelectSeq(successfulCharges, LAMBDA c : c.invoice = ""))
        subscriptionTotal ==
            SumAmount(SelectSeq(successfulCharges, LAMBDA c : c.invoice # ""))
        refundedTotal == RefundedTotal(charges)
        total == LifetimeTotal(oneTimeTotal, subscriptionTotal, refundedTotal)
    IN [total |-> CentsToDollars(total),
        currency |-> currency,
        breakdown |-> [oneTime |-> CentsToDollars(oneTimeTotal),
                       subscription |-> CentsToDollars(subscriptionTotal),
                       refunded |-> CentsToDollars(refundedTotal)]]

\* successRate is (successfulPayments / totalPayments) * 100, averagePaymentAmount
\* the sum of the amounts / totalPayments / 100.
SuccessRate_Unguarded(successfulPayments, totalPayments) ==
    Ratio(successfulPayments * 100, totalPayments)
\* totalPayments > 0 ? (successfulPayments / totalPayments) * 100 : 0; a zero
\* denominator is the NaN or Infinity of a division by zero.
SuccessRate(successfulPayments, totalPayments) ==
    IF totalPayments > 0 THEN Ratio(successfulPayments * 100, totalPayments)
    ELSE Ratio(0, 1)

\* paymentMethodCounts once the forEach has visited every charge: one entry
\* for each type, in the order in which the types were first set, with the
\* number of charges of that type.
MethodCounts(charges) ==
    LET types == {charges[i].payment_method_type : i \in 1..Len(charges)} \ {""}
        FirstSet(type) == CHOOSE i \in 1..Len(charges) :
                              /\ charges[i].payment_method_type = type
                              /\ \A j \in 1..(i - 1) :
                                    charges[j].payment_method_type # type
        Position(type) ==
            1 + Cardinality({other \in types : FirstSet(other) < FirstSet(type)})
    IN [k \in 1..Cardinality(types) |->
          LET type == CHOOSE t \in types : Position(t) = k
          IN [method |-> type,
              count |-> Len(SelectSeq(charges,
                                      LAMBDA c : c.payment_method_type = type))]]

\* MostUsed where an entry of the same count replaces the one found before.
RECURSIVE MostUsed_LastWins(_, _)
MostUsed_LastWins(counts, k) ==
    IF k = 0 THEN [maxCount |-> 0, preferredPaymentMethod |-> Null]
    ELSE LET before == MostUsed_LastWins(counts, k - 1)
         IN IF counts[k].count >= before.maxCount
            THEN [maxCount |-> counts[k].count,
                  preferredPaymentMethod |-> Value(counts[k].method)]
            ELSE before

\* maxCount and preferredPaymentMethod after the forEach has visited the first
\* k entries of the Map.
RECURSIVE MostUsed(_, _)
MostUsed(counts, k) ==
    IF k = 0 THEN [maxCount |-> 0, preferredPaymentMethod |-> Null]
    ELSE LET before == MostUsed(counts, k - 1)
         IN IF counts[k].count > before.maxCount
            THEN [maxCount |-> counts[k].count,
                  preferredPaymentMethod |-> Value(counts[k].method)]
            ELSE before

PreferredPaymentMethod(charges) ==
    LET paymentMethodCounts == MethodCounts(charges)
    IN MostUsed(paymentMethodCounts, Len(paymentMethodCounts)).preferredPaymentMethod

analyzePaymentPattern(charges) ==
    LET successfulPayments == Len(SelectSeq(charges, LAMBDA c : c.status = "succeeded"))
        failedPayments == Len(SelectSeq(charges, LAMBDA c : c.status = "failed"))
        totalPayments == Len(charges)
    IN [successRate |-> SuccessRate(successfulPayments, totalPayments),
        totalPayments |-> totalPayments,
        successfulPayments |-> successfulPayments,
        failedPayments |-> failedPayments,
        averagePaymentAmount |-> IF totalPayments > 0
                                 THEN Ratio(SumAmount(charges), totalPayments * 100)
                                 ELSE Ratio(0, 1),
        preferredPaymentMethod |-> PreferredPaymentMethod(charges)]

\* A RiskFactor (without its description).
RiskFactor(type, severity, value) ==
    [type |-> type, severity |-> severity, value |-> value]

\* push that puts the factor at the front of the list.
push_Front(factors, factor) == <<factor>> \o factors

\* factors.push(factor)
push(factors, factor) == Append(factors, factor)

\* PaymentFailurePoints that are subtracted from the score.
PaymentFailurePoints_Subtracted(failureRate) ==
    IF RatioGreater(failureRate, 1, 2) THEN -30 ELSE -15

\* riskScore += failureRate > 0.5 ? 30 : 15
PaymentFailurePoints(failureRate) ==
    IF RatioGreater(failureRate, 1, 2) THEN 30 ELSE 15

\* ChargebackPoints that are 40 from the first disputed charge on.
ChargebackPoints_Flat(chargebackRate) == 40

\* riskScore += chargebackRate > 0.01 ? 40 : 20
ChargebackPoints(chargebackRate) ==
    IF RatioGreater(chargebackRate, 1, 100) THEN 40 ELSE 20

\* The seconds of a day and of a 30-day month, and the amount above which a
\* charge counts as large.
SecondsPerDay == 86400
SecondsPerMonth == 86400 * 30
LargeAmount == 50000

Min(a, b) == IF a < b THEN a ELSE b
Max(a, b) == IF a > b THEN a ELSE b

\* assessRisk(customer, charges, paymentIntents) at Date.now() / 1000 =
\* nowSeconds; paymentIntents is not read.
Recommendation_Inclusive(riskScore) ==
    IF riskScore <= 20 THEN "low_risk"
    ELSE IF riskScore <= 50 THEN "medium_risk"
    ELSE "high_risk"
\* The recommendation assessRisk derives from the accumulated riskScore.
Recommendation(riskScore) ==
    IF riskScore < 20 THEN "low_risk"
    ELSE IF riskScore < 50 THEN "medium_risk"
    ELSE "high_risk"

assessRisk(customer, charges, nowSeconds) ==
    LET failedCharges == Len(SelectSeq(charges, LAMBDA c : c.status = "failed"))
        totalCharges == Len(charges)
        failureRate == IF totalCharges > 0 THEN Ratio(failedCharges, totalCharges)
                       ELSE Ratio(0, 1)
        failures == RatioGreater(failureRate, 3, 10)
        chargebacks == Len(SelectSeq(charges, LAMBDA c : c.disputed))
        chargebackRate == Ratio(chargebacks, totalCharges)
        \* accountAge in months, as seconds / SecondsPerMonth
        accountAge == IF customer.created # 0
                      THEN Ratio(nowSeconds - customer.created, SecondsPerMonth)
                      ELSE Ratio(0, 1)
        largeCharges == Len(SelectSeq(charges, LAMBDA c : c.amount > LargeAmount))
        newLarge == RatioLess(accountAge, 1, 1) /\ largeCharges > 0
        firstCharge == IF charges # << >> THEN charges[Len(charges)].created ELSE 0
        lastCharge == IF charges # << >> THEN charges[1].created ELSE 0
        velocity == Len(charges) > 10 /\ lastCharge - firstCharge < 7 * SecondsPerDay
        factors1 ==
            IF failures
            THEN push(<< >>, RiskFactor("payment_failures",
                                        IF RatioGreater(failureRate, 1, 2)
                                        THEN "high" ELSE "medium",
                                        failureRate))
            ELSE << >>
        factors2 ==
            IF chargebacks > 0
            THEN push(factors1, RiskFactor("high_chargeback_rate",
                                           IF RatioGreater(chargebackRate, 1, 100)
                                           THEN "high" ELSE "medium",
                                           chargebacks))
            ELSE factors1
        factors3 ==
            IF newLarge
            THEN push(factors2, RiskFactor("new_customer_large_amount", "medium",
                                           accountAge))
            ELSE factors2
        factors ==
            IF velocity
            THEN push(factors3, RiskFactor("velocity_check", "medium", Len(charges)))
            ELSE factors3
        riskScore ==
            (IF failures THEN PaymentFailurePoints(failureRate) ELSE 0)
            + (IF chargebacks > 0 THEN ChargebackPoints(chargebackRate) ELSE 0)
            + (IF newLarge THEN 15 ELSE 0)
            + (IF velocity THEN 10 ELSE 0)
    IN [score |-> Min(riskScore, 100),
        factors |-> factors,
        recommendation |-> Recommendation(riskScore)]

\* new Date(seconds * 1000).toISOString(): the UTC calendar date and time of
\* day of the instant, with its milliseconds.
toISOString(seconds) ==
    LET days == seconds \div SecondsPerDay
        rest == seconds % SecondsPerDay
        z == days + 719468
        era == z \div 146097
        doe == z - era * 146097
        yoe == (doe - doe \div 1460 + doe \div 36524 - doe \div 146096) \div 365
        doy == doe - (365 * yoe + yoe \div 4 - yoe \div 100)
        mp == (5 * doy + 2) \div 153
        month == IF mp < 10 THEN mp + 3 ELSE mp - 9
    IN [year |-> yoe + era * 400 + (IF month <= 2 THEN 1 ELSE 0),
        month |-> month,
        day |-> doy - (153 * mp + 2) \div 5 + 1,
        hour |-> rest \div 3600,
        minute |-> (rest % 3600) \div 60,
        second |-> rest % 60,
        millisecond |-> 0]

\* The amount one subscription adds to the monthly recurring revenue, in cents.
MonthlyAmount(sub) ==
    LET intervalCount == IF sub.interval_count # 0 THEN sub.interval_count ELSE 1
        amount == sub.unit_amount
    IN IF sub.interval = "year" THEN Ratio(amount, 12)
       ELSE IF sub.interval = "month" THEN Ratio(amount, intervalCount)
       ELSE Ratio(amount, 1)

\* subs.reduce((sum, sub) => sum + monthlyAmount, 0)
RECURSIVE SumMonthly(_)
SumMonthly(subs) ==
    IF subs = << >> THEN Ratio(0, 1)
    ELSE RatioAdd(SumMonthly(SubSeq(subs, 1, Len(subs) - 1)), MonthlyAmount(subs[Len(subs)]))

\* NextBilling that takes the active subscription whose period ends soonest.
NextBilling_Soonest(activeSubs) ==
    activeSubs[CHOOSE i \in 1..Len(activeSubs) :
                  \A j \in 1..Len(activeSubs) :
                     \/ activeSubs[i].current_period_end < activeSubs[j].current_period_end
                     \/ /\ activeSubs[i].current_period_end = activeSubs[j].current_period_end
                        /\ i <= j]
\* activeSubs[0], the subscription nextBillingDate is read from
NextBilling(activeSubs) == activeSubs[1]

analyzeSubscriptions(subscriptions) ==
    LET activeSubs == SelectSeq(subscriptions, LAMBDA s : s.status = "active")
        sum == SumMonthly(activeSubs)
    IN [activeSubscriptions |-> Len(activeSubs),
        totalSubscriptions |-> Len(subscriptions),
        churnedSubscriptions |->
            Len(SelectSeq(subscriptions,
                          LAMBDA s : s.status = "canceled" \/ s.status = "unpaid")),
        monthlyRecurringRevenue |-> Ratio(sum.num, sum.den * 100),
        nextBillingDate |-> IF Len(activeSubs) > 0
                            THEN toISOString(NextBilling(activeSubs).current_period_end)
                            ELSE Null]

\* The created of sortedCharges[0] and of sortedCharges[length - 1], where
\* sortedCharges = [...charges].sort((a, b) => a.created - b.created): the
\* earliest and the latest created among charges[lo..hi].
RECURSIVE EarliestCreated(_, _, _)
EarliestCreated(charges, lo, hi) ==
    IF lo >= hi THEN charges[lo].created
    ELSE LET mid == (lo + hi) \div 2
         IN Min(EarliestCreated(charges, lo, mid), EarliestCreated(charges, mid + 1, hi))
\* LatestCreated that trusts the input order: the created of the last charge.
LatestCreated_InputOrder(charges, lo, hi) == charges[hi].created
RECURSIVE LatestCreated(_, _, _)
LatestCreated(charges, lo, hi) ==
    IF lo >= hi THEN charges[lo].created
    ELSE LET mid == (lo + hi) \div 2
         IN Max(LatestCreated(charges, lo, mid), LatestCreated(charges, mid + 1, hi))

extractMetadata(charges, nowSeconds) ==
    LET present == charges # << >>
        firstCreated == EarliestCreated(charges, 1, Len(charges))
        lastCreated == LatestCreated(charges, 1, Len(charges))
    IN [firstPurchaseDate |-> IF present THEN toISOString(firstCreated) ELSE Null,
        lastPurchaseDate |-> IF present THEN toISOString(lastCreated) ELSE Null,
        daysSinceLastPurchase |->
            IF present THEN Value((nowSeconds - lastCreated) \div SecondsPerDay)
            ELSE Null,
        totalTransactions |-> Len(charges)]

\* calculateCustomerInsights(data) at Date.now() / 1000 = nowSeconds
calculateCustomerInsights(d, nowSeconds) ==
    [customerId |-> d.customer.id,
     lifetimeValue |-> calculateLifetimeValue(d.charges),
     paymentPattern |-> analyzePaymentPattern(d.charges),
     riskAssessment |-> assessRisk(d.customer, d.charges, nowSeconds),
     subscriptionHealth |-> analyzeSubscriptions(d.subscriptions),
     metadata |-> extractMetadata(d.charges, nowSeconds)]

\* ------------------------------------------------------- fetchCustomerData
\* The five fetches Promise.all awaits, and those that paginate.
Resources == {"customer", "charges", "paymentIntents", "subscriptions", "invoices"}
Paginated == Resources \ {"customer"}

\* starting_after: undefined
NoCursor == << >>

\* The i-th object of a resource at Stripe, named by its id; a list at Stripe
\* (newest first, as the list endpoints return it).
Item(r, i) == <<r, i>>
Items(r, n) == [i \in 1..n |-> Item(r, i)]

\* The accounts collected from: the customer exists, is deleted or is unknown
\* to Stripe; the charges are none, less than a page, a full page or several
\* pages; the other lists are empty, one object and exactly one full page.
ListLength(r, n) ==
    CASE r = "charges" -> n
      [] r = "paymentIntents" -> 0
      [] r = "subscriptions" -> 1
      [] OTHER -> PageLimit
Account(status, n) ==
    [customer |-> status, lists |-> [r \in Paginated |-> Items(r, ListLength(r, n))]]
Accounts == { Account("live", n) : n \in 0..MaxItems }
            \cup { Account("deleted", 1), Account("missing", 0) }
NoAccount == Account("missing", 0)

\* Errors: a JavaScript Error has a message only, a Stripe error also a type.
JsError(message) == [type |-> "", message |-> message]
StripeError(type, message) == [type |-> type, message |-> message]
NoFailure == JsError(NoError)
ResourceMissing == StripeError("StripeInvalidRequestError", <<"No", "such", "customer">>)
TransportErrors ==
    { StripeError("StripeRateLimitError", <<"Too", "many", "requests">>),
      StripeError("StripeConnectionError", <<"Connection", "failed">>) }
CustomerDeleted == JsError(<<"Customer", "has", "been", "deleted">>)

\* throw new Error(`Failed to fetch data for customer ${customerId}`)
FailedToFetch(error, customerId) ==
    JsError(<<"Failed", "to", "fetch", "data", "for", "customer", customerId>>)

\* stripe.<resource>.list({customer, limit, starting_after}): the objects after
\* the cursor, at most limit of them, and whether more follow.
IndexOf(list, cursor) ==
    IF cursor = NoCursor THEN 0 ELSE CHOOSE i \in 1..Len(list) : list[i] = cursor
ListPage(list, limit, startingAfter) ==
    LET from == IndexOf(list, startingAfter) + 1
        to == IF from + limit - 1 < Len(list) THEN from + limit - 1 ELSE Len(list)
    IN [data |-> SubSeq(list, from, to), has_more |-> to < Len(list)]

\* NextCursor that never moves.
NextCursor_Stuck(startingAfter, page) == startingAfter

\* NextCursor that takes the first object of the page.
NextCursor_First(startingAfter, page) ==
    IF Len(page) > 0 THEN page[1] ELSE startingAfter

\* if (response.data.length > 0) startingAfter = response.data[length - 1].id
NextCursor(startingAfter, page) ==
    IF Len(page) > 0 THEN page[Len(page)] ELSE startingAfter

\* One fetch: its promise, the objects collected so far, the cursor of the
\* next request; sent and pages list the cursors sent and the responses
\* received (history).
IdleFetch ==
    [pc |-> "pending", items |-> << >>, startingAfter |-> NoCursor,
     sent |-> << >>, pages |-> << >>]
IdleFetches == [r \in Resources |-> IdleFetch]
Rejected == [IdleFetch EXCEPT !.pc = "rejected"]

\* The StripeCustomerData assembled from five resolved fetches.
Bundle(fs) ==
    [customer |-> fs["customer"].items, charges |-> fs["charges"].items,
     paymentIntents |-> fs["paymentIntents"].items,
     subscriptions |-> fs["subscriptions"].items,
     invoices |-> fs["invoices"].items]
NoBundle == Bundle(IdleFetches)
NoOutcome == [bundle |-> NoBundle, error |-> NoFailure, cause |-> NoFailure]

\* PromiseAll that waits for every promise and resolves whatever they did.
PromiseAll_AllSettled(fs) ==
    IF \A r \in Resources : fs[r].pc # "pending" THEN "resolved" ELSE "pending"

\* Promise.all: rejected once one promise is, resolved once all are.
PromiseAll(fs) ==
    IF \E r \in Resources : fs[r].pc = "rejected" THEN "rejected"
    ELSE IF \A r \in Resources : fs[r].pc = "resolved" THEN "resolved"
    ELSE "pending"

\* fetchCustomerData, lines 53-71, and the continuation of
\* fetchCustomerDataWithCache, lines 280-287, once a fetch has settled: while
\* the call awaits, a rejection makes it throw past cache.set and the last
\* resolution makes it store and return; later settlements have no listener.
Settle(fs, cause) ==
    LET id == calls[1].id
        all == IF calls[1].pc = "fetching" THEN PromiseAll(fs) ELSE "pending"
        entry == [data |-> Snapshot(id, upstream), timestamp |-> now]
    IN /\ calls' = [calls EXCEPT ![1] =
              CASE all = "rejected" ->
                     [IdleCall EXCEPT !.pc = "thrown", !.id = id,
                                      !.requests = calls[1].requests]
                [] all = "resolved" ->
                     [IdleCall EXCEPT !.pc = "returned", !.id = id,
                                      !.result = entry.data,
                                      !.requests = calls[1].requests,
                                      !.sawEntry = calls[1].sawEntry]
                [] OTHER -> calls[1]]
       /\ outcome' =
              CASE all = "rejected" ->
                     [bundle |-> NoBundle, error |-> FailedToFetch(cause, id),
                      cause |-> cause]
                [] all = "resolved" -> [outcome EXCEPT !.bundle = Bundle(fs)]
                [] OTHER -> outcome
       /\ cache' = IF all = "resolved" THEN CacheSet(cache, id, entry) ELSE cache
       /\ lastStore' = IF all = "resolved" THEN [lastStore EXCEPT ![id] = entry]
                       ELSE lastStore

\* The fetches run from the call of fetchCustomerData on, also after it threw.
Collecting == calls[1].pc \in {"fetching", "thrown"}

\* fetchCustomer, lines 84-95: stripe.customers.retrieve answers.
CustomerReceive ==
    /\ Collecting
    /\ fetches["customer"].pc = "pending"
    /\ LET error == CASE account.customer = "live" -> NoFailure
                      [] account.customer = "deleted" -> CustomerDeleted
                      [] OTHER -> ResourceMissing
           f == IF error = NoFailure
                THEN [IdleFetch EXCEPT !.pc = "resolved",
                                       !.items = <<Item("customer", 1)>>]
                ELSE Rejected
           fs == [fetches EXCEPT !["customer"] = f]
       IN fetches' = fs /\ Settle(fs, error)
    /\ UNCHANGED <<now, ticks, upstream, staleEntries, pendingInval, account>>
    /\ UNCHANGED <<hookVars, track, calcVars, viewVars, badgeVars>>

\* fetchCharges, fetchPaymentIntents, fetchSubscriptions, fetchInvoices: one
\* turn of the pagination loop, from the request to the end of the loop body.
PageReceive(r) ==
    /\ Collecting
    /\ fetches[r].pc = "pending"
    /\ LET f == fetches[r]
           response == ListPage(account.lists[r], PageLimit, f.startingAfter)
           g == [f EXCEPT
                   !.items = @ \o response.data,
                   !.startingAfter = NextCursor(@, response.data),
                   !.sent = Append(@, f.startingAfter),
                   !.pages = Append(@, response),
                   !.pc = IF response.has_more THEN "pending" ELSE "resolved"]
           fs == [fetches EXCEPT ![r] = g]
       IN fetches' = fs /\ Settle(fs, NoFailure)
    /\ UNCHANGED <<now, ticks, upstream, staleEntries, pendingInval, account>>
    /\ UNCHANGED <<hookVars, track, calcVars, viewVars, badgeVars>>

\* A request of a fetch fails in transport or is rate limited: the fetch
\* rejects with Stripe's error.
RequestFail(r, error) ==
    /\ Collecting
    /\ fetches[r].pc = "pending"
    /\ LET fs == [fetches EXCEPT ![r] = Rejected]
       IN fetches' = fs /\ Settle(fs, error)
    /\ UNCHANGED <<now, ticks, upstream, staleEntries, pendingInval, account>>
    /\ UNCHANGED <<hookVars, track, calcVars, viewVars, badgeVars>>

\* ------------------------------------------------------ CustomerInsights view
\* useState<AppState>({insights: null, loadingState: 'idle', error: null})
InitialState == [insights |-> Null, loadingState |-> "idle", error |-> Null]

\* One loadInsights invocation: the customerId its closure holds and whether
\* its fetchCustomerDataWithCache is pending, resolved or rejected.
Load(id) == [customerId |-> id, pc |-> "fetching"]

\* setState(prev => ({...prev, loadingState: 'loading', error: null}))
LoadingState(prev) == [prev EXCEPT !.loadingState = "loading", !.error = Null]

\* SuccessState that keeps the error of the previous state.
SuccessState_KeepError(prev, result) ==
    [prev EXCEPT !.insights = result, !.loadingState = "success"]

\* setState({insights, loadingState: 'success', error: null})
SuccessState(prev, result) ==
    [insights |-> result, loadingState |-> "success", error |-> Null]

\* ErrorState that leaves the state as it is.
ErrorState_Unset(prev, message) == prev

\* setState({insights: null, loadingState: 'error', error: error.message})
ErrorState(prev, message) ==
    [insights |-> Null, loadingState |-> "error", error |-> Value(message)]

\* onClick of Retry: setState({...state, loadingState: 'idle'})
RetryState(prev) == [prev EXCEPT !.loadingState = "idle"]

\* The data fetchCustomerDataWithCache resolves with for a customer.
FetchedData(id) ==
    CustomerData([id |-> id, created |-> 0],
                 <<Charge(1, "succeeded", 1000, 0)>>, << >>)

\* The effect of useEffect(..., [customerId]) run for id: nothing without a
\* customerId, else loadInsights() up to its await.
Effect(id) ==
    IF id = ""
    THEN UNCHANGED <<state, loads>>
    ELSE /\ Len(loads) < MaxLoads
         /\ state' = LoadingState(state)
         /\ loads' = Append(loads, Load(id))

\* The view as rendered first, its effect not yet run.
Unmounted ==
    /\ mounted = FALSE
    /\ viewCustomerId = ""
    /\ state = InitialState
    /\ loads = << >>

\* The first render commits and the effect runs.
Mount ==
    /\ ~mounted
    /\ mounted' = TRUE
    /\ Effect(viewCustomerId)
    /\ UNCHANGED <<viewCustomerId, cacheVars, hookVars, track, collectVars, calcVars,
                   badgeVars>>

\* The dashboard shows another customer: the view renders with the new
\* customerId and, the dependency having changed, the effect runs again.
ContextChange(id) ==
    /\ mounted
    /\ id # viewCustomerId
    /\ viewCustomerId' = id
    /\ Effect(id)
    /\ UNCHANGED <<mounted, cacheVars, hookVars, track, collectVars, calcVars,
                   badgeVars>>

\* loadInsights after its await, lines 72-81: the fetch resolved.
LoadResolve(l) ==
    /\ l <= Len(loads)
    /\ loads[l].pc = "fetching"
    /\ loads' = [loads EXCEPT ![l].pc = "resolved"]
    /\ state' = SuccessState(state,
                    calculateCustomerInsights(FetchedData(loads[l].customerId), clock))
    /\ UNCHANGED <<mounted, viewCustomerId, cacheVars, hookVars, track, collectVars,
                   calcVars, badgeVars>>

\* loadInsights after its await, lines 82-89: the fetch rejected.
LoadReject(l) ==
    /\ l <= Len(loads)
    /\ loads[l].pc = "fetching"
    /\ loads' = [loads EXCEPT ![l].pc = "rejected"]
    /\ state' = ErrorState(state,
                    FailedToFetch(ResourceMissing, loads[l].customerId).message)
    /\ UNCHANGED <<mounted, viewCustomerId, cacheVars, hookVars, track, collectVars,
                   calcVars, badgeVars>>

\* The Retry button of the error rendering is pressed: the state is set, the
\* view renders again and, customerId being the same, no effect runs.
Retry ==
    /\ state.loadingState = "error"
    /\ state' = RetryState(state)
    /\ UNCHANGED <<mounted, viewCustomerId, loads, cacheVars, hookVars, track,
                   collectVars, calcVars, badgeVars>>

\* ---------------------------------------- the view of CustomerDetails.tsx
\* What Stripe holds for a customer the view is shown for.
NoRecords == [charges |-> << >>, subscriptions |-> << >>]

\* stripe.charges.list({customer, limit}): the first limit charges.
ChargesList(held, limit) ==
    [data |-> SubSeq(held.charges, 1, Min(limit, Len(held.charges)))]

\* stripe.subscriptions.list({customer, status, limit}): the first limit
\* subscriptions of that status.
SubscriptionsList(held, status, limit) ==
    LET matching == SelectSeq(held.subscriptions, LAMBDA sub : sub.status = status)
    IN [data |-> SubSeq(matching, 1, Min(limit, Len(matching)))]

\* A request of the Promise.all: pending, rejected, or fulfilled with a list.
RequestPending == [settled |-> "pending"]
RequestRejected == [settled |-> "rejected"]
RequestFulfilled(list) == [settled |-> "fulfilled", data |-> list.data]

\* One analyzeCustomer invocation: the customerId of its closure, its two
\* requests, and whether it is at its await or done.
Analysis(id) ==
    [customerId |-> id, charges |-> RequestPending, subscriptions |-> RequestPending,
     pc |-> "awaiting"]

\* Info that looks at the charges before the subscriptions.
Info_ChargesFirst(charges, subscriptions) ==
    IF Len(charges.data) > 0
    THEN [status |-> "active", label |-> "Active Customer", color |-> "warning",
          description |-> "Has purchase history"]
    ELSE IF Len(subscriptions.data) > 0
    THEN [status |-> "vip", label |-> "VIP Customer", color |-> "positive",
          description |-> "Has active subscription"]
    ELSE [status |-> "new", label |-> "New Customer", color |-> "neutral",
          description |-> "No purchases yet"]

\* The info analyzeCustomer determines from the two lists, lines 133-157.
Info(charges, subscriptions) ==
    IF Len(subscriptions.data) > 0
    THEN [status |-> "vip", label |-> "VIP Customer", color |-> "positive",
          description |-> "Has active subscription"]
    ELSE IF Len(charges.data) > 0
    THEN [status |-> "active", label |-> "Active Customer", color |-> "warning",
          description |-> "Has purchase history"]
    ELSE [status |-> "new", label |-> "New Customer", color |-> "neutral",
          description |-> "No purchases yet"]

\* The info of the catch block, lines 162-167.
UnknownInfo ==
    [status |-> "unknown", label |-> "Unknown", color |-> "neutral",
     description |-> "Error loading status"]

\* The effect of useEffect(..., [customerId]) run for id: without a customerId
\* setLoading(false), else analyzeCustomer() up to its await, both requests sent.
DetailsEffect(id) ==
    IF id = ""
    THEN /\ loading' = FALSE
         /\ UNCHANGED analyses
    ELSE /\ Len(analyses) < MaxAnalyses
         /\ analyses' = Append(analyses, Analysis(id))
         /\ UNCHANGED loading

\* The view as rendered first, its effect not yet run.
DetailsUnmounted ==
    /\ records = [id \in Customers |-> NoRecords]
    /\ detailsMounted = FALSE
    /\ detailsCustomerId = ""
    /\ statusInfo = Null
    /\ loading = TRUE
    /\ analyses = << >>

\* The first render commits and the effect runs.
DetailsMount ==
    /\ ~detailsMounted
    /\ detailsMounted' = TRUE
    /\ DetailsEffect(detailsCustomerId)
    /\ UNCHANGED <<records, detailsCustomerId, statusInfo>>
    /\ UNCHANGED <<cacheVars, hookVars, track, collectVars, calcVars, viewVars>>

\* The dashboard shows another customer: the dependency changed, the effect
\* runs again.
DetailsContextChange(id) ==
    /\ detailsMounted
    /\ id # detailsCustomerId
    /\ detailsCustomerId' = id
    /\ DetailsEffect(id)
    /\ UNCHANGED <<records, detailsMounted, statusInfo>>
    /\ UNCHANGED <<cacheVars, hookVars, track, collectVars, calcVars, viewVars>>

\* Stripe answers the charges request of an analysis.
ChargesResolve(a) ==
    /\ a <= Len(analyses)
    /\ analyses[a].charges = RequestPending
    /\ analyses' = [analyses EXCEPT ![a].charges =
                        RequestFulfilled(ChargesList(records[analyses[a].customerId], 1))]
    /\ UNCHANGED <<records, detailsMounted, detailsCustomerId, statusInfo, loading>>
    /\ UNCHANGED <<cacheVars, hookVars, track, collectVars, calcVars, viewVars>>

\* The charges request of an analysis fails.
ChargesReject(a) ==
    /\ a <= Len(analyses)
    /\ analyses[a].charges = RequestPending
    /\ analyses' = [analyses EXCEPT ![a].charges = RequestRejected]
    /\ UNCHANGED <<records, detailsMounted, detailsCustomerId, statusInfo, loading>>
    /\ UNCHANGED <<cacheVars, hookVars, track, collectVars, calcVars, viewVars>>

\* Stripe answers the subscriptions request of an analysis.
SubscriptionsResolve(a) ==
    /\ a <= Len(analyses)
    /\ analyses[a].subscriptions = RequestPending
    /\ analyses' = [analyses EXCEPT ![a].subscriptions =
                        RequestFulfilled(SubscriptionsList(records[analyses[a].customerId],
                                                    "active", 1))]
    /\ UNCHANGED <<records, detailsMounted, detailsCustomerId, statusInfo, loading>>
    /\ UNCHANGED <<cacheVars, hookVars, track, collectVars, calcVars, viewVars>>

\* The subscriptions request of an analysis fails.
SubscriptionsReject(a) ==
    /\ a <= Len(analyses)
    /\ analyses[a].subscriptions = RequestPending
    /\ analyses' = [analyses EXCEPT ![a].subscriptions = RequestRejected]
    /\ UNCHANGED <<records, detailsMounted, detailsCustomerId, statusInfo, loading>>
    /\ UNCHANGED <<cacheVars, hookVars, track, collectVars, calcVars, viewVars>>

\* Promise.all is fulfilled once both requests are, and rejected as soon as
\* one of them is.
AllFulfilled(analysis) ==
    analysis.charges.settled = "fulfilled" /\ analysis.subscriptions.settled = "fulfilled"
AnyRejected(analysis) ==
    analysis.charges = RequestRejected \/ analysis.subscriptions = RequestRejected

\* analyzeCustomer after its await, both lists there: lines 133-159 and the
\* finally block.
AnalyzeResolve(a) ==
    /\ a <= Len(analyses)
    /\ analyses[a].pc = "awaiting"
    /\ AllFulfilled(analyses[a])
    /\ statusInfo' = Info(analyses[a].charges, analyses[a].subscriptions)
    /\ loading' = FALSE
    /\ analyses' = [analyses EXCEPT ![a].pc = "done"]
    /\ UNCHANGED <<records, detailsMounted, detailsCustomerId>>
    /\ UNCHANGED <<cacheVars, hookVars, track, collectVars, calcVars, viewVars>>

\* analyzeCustomer after its await, a request having failed: the catch block
\* and the finally block.
AnalyzeReject(a) ==
    /\ a <= Len(analyses)
    /\ analyses[a].pc = "awaiting"
    /\ AnyRejected(analyses[a])
    /\ statusInfo' = UnknownInfo
    /\ loading' = FALSE
    /\ analyses' = [analyses EXCEPT ![a].pc = "done"]
    /\ UNCHANGED <<records, detailsMounted, detailsCustomerId>>
    /\ UNCHANGED <<cacheVars, hookVars, track, collectVars, calcVars, viewVars>>

\* Nothing is being collected or calculated.
Resting ==
    /\ account = NoAccount
    /\ fetches = IdleFetches
    /\ outcome = NoOutcome
    /\ data = NoCustomerData
    /\ clock = 0
    /\ changes = 0
    /\ insights = NoInsights
    /\ Unmounted
    /\ DetailsUnmounted

InitState ==
    /\ Resting
    /\ cache = << >>
    /\ now = 0
    /\ ticks = 0
    /\ upstream = 0
    /\ calls = [c \in Calls |-> IdleCall]
    /\ lastStore = [id \in Customers |-> NoEntry]
    /\ processedEvents = {}
    /\ deliveries = [d \in Deliveries |-> IdleDelivery]
    /\ staleEntries = {}
    /\ pendingInval = {}

Init == InitState /\ track = FALSE

Next ==
    \/ \E c \in Calls, id \in Customers, bypass \in BOOLEAN : CallStart(c, id, bypass)
    \/ \E c \in Calls : UpstreamRespond(c)
    \/ \E c \in Calls : FetchFail(c)
    \/ \E c \in Calls : Store(c)
    \/ \E id \in Customers : InvalidateCacheCall(id)
    \/ \E d \in TickSteps : Tick(d)
    \/ UpstreamChange

Spec == Init /\ [][Next]_vars

\* The webhook endpoint over a cache that earlier calls have filled.
FilledCaches ==
    { [id \in ids |-> [data |-> Snapshot(id, 0), timestamp |-> 0]] :
        ids \in SUBSET Customers }

InitWebhook ==
    /\ cache \in FilledCaches
    /\ now = 0
    /\ ticks = 0
    /\ upstream = 0
    /\ calls = [c \in Calls |-> IdleCall]
    /\ lastStore = [id \in Customers |-> CacheGet(cache, id)]
    /\ processedEvents = {}
    /\ deliveries = [d \in Deliveries |-> IdleDelivery]
    /\ staleEntries = {}
    /\ pendingInval = {}
    /\ track = FALSE
    /\ Resting

NextWebhook ==
    \/ \E d \in Deliveries, req \in Requests : EndpointReceive(d, req)
    \/ \E d \in Deliveries : EndpointResume(d)

SpecWebhook == InitWebhook /\ [][NextWebhook]_vars

\* One fetchCustomerDataWithCache call with the fetches of its
\* fetchCustomerData, over a cache that earlier calls have filled.
InitCollector ==
    /\ cache \in FilledCaches
    /\ now = 0
    /\ ticks = 0
    /\ upstream = 0
    /\ calls = [c \in Calls |-> IdleCall]
    /\ lastStore = [id \in Customers |-> CacheGet(cache, id)]
    /\ processedEvents = {}
    /\ deliveries = [d \in Deliveries |-> IdleDelivery]
    /\ staleEntries = {}
    /\ pendingInval = {}
    /\ track = FALSE
    /\ account \in Accounts
    /\ fetches = IdleFetches
    /\ outcome = NoOutcome
    /\ data = NoCustomerData
    /\ clock = 0
    /\ changes = 0
    /\ insights = NoInsights
    /\ Unmounted
    /\ DetailsUnmounted

NextCollector ==
    \/ \E id \in Customers, bypass \in BOOLEAN : CallStart(1, id, bypass)
    \/ CustomerReceive
    \/ \E r \in Paginated : PageReceive(r)
    \/ \E r \in Resources, error \in TransportErrors : RequestFail(r, error)

SpecCollector == InitCollector /\ [][NextCollector]_vars

\* The collection for a live customer on an empty cache, when Stripe answers
\* every list request in the end: the await of a request that is answered
\* resumes the loop.
InitPaging ==
    /\ InitCollector
    /\ cache = << >>
    /\ account.customer = "live"

SpecPaging ==
    /\ InitPaging
    /\ [][NextCollector]_vars
    /\ \A r \in Paginated : WF_vars(PageReceive(r))

\* The customers and charge lists the calculations are applied to: a customer
\* without a creation time, ten days old and a month old; none, a few, ten and
\* a hundred less one charges, newest first and gap seconds apart, the newest
\* `pending` of them pending and the rest succeeded, every second one paid on
\* an invoice, the oldest a large one if `large`.
ChargeCounts == {0, 3, 4, 10, 99}
Today == 200 * SecondsPerDay
InitialCharges(n, pending, gap, large) ==
    [i \in 1..n |->
        [Charge(i, IF i <= pending THEN "pending" ELSE "succeeded",
                IF large /\ i = n THEN LargeAmount + 10000
                ELSE 1000 * (((i - 1) % 3) + 1),
                Today - i * gap)
         EXCEPT !.invoice = IF i % 2 = 0 THEN "in_1" ELSE ""]]
InitialData ==
    { CustomerData([id |-> "cus_A", created |-> created],
                   InitialCharges(n, pending, gap, large), << >>) :
        created \in {0, Today - 10 * SecondsPerDay, Today - SecondsPerMonth},
        n \in ChargeCounts, pending \in 0..MaxChanges,
        gap \in {3600, SecondsPerDay}, large \in BOOLEAN }

\* The records change at Stripe and the insights are calculated afresh.
Recalculate(charges) ==
    /\ changes < MaxChanges
    /\ changes' = changes + 1
    /\ data' = [data EXCEPT !.charges = charges]
    /\ insights' = calculateCustomerInsights(data', clock)
    /\ UNCHANGED <<clock, cacheVars, hookVars, track, collectVars, viewVars, badgeVars>>

\* The oldest pending charge succeeds or fails.
SettleCharge(status) ==
    /\ \E i \in 1..Len(data.charges) : data.charges[i].status = "pending"
    /\ LET i == CHOOSE k \in 1..Len(data.charges) :
                   /\ data.charges[k].status = "pending"
                   /\ \A j \in (k + 1)..Len(data.charges) :
                         data.charges[j].status # "pending"
       IN Recalculate([data.charges EXCEPT ![i].status = status])

\* The oldest undisputed succeeded charge is disputed.
DisputeCharge ==
    LET open == {k \in 1..Len(data.charges) :
                    data.charges[k].status = "succeeded" /\ ~data.charges[k].disputed}
    IN /\ open # {}
       /\ LET i == CHOOSE k \in open : \A j \in open : j <= k
          IN Recalculate([data.charges EXCEPT ![i].disputed = TRUE])

\* An amount is refunded on the newest charge.
RefundCharge(amount) ==
    /\ data.charges # << >>
    /\ data.charges[1].amount_refunded = 0
    /\ amount <= data.charges[1].amount
    /\ Recalculate([data.charges EXCEPT ![1].amount_refunded = amount])

\* The customer is charged once more, now.
NewCharge ==
    /\ data.customer.id # ""
    /\ Recalculate(<<Charge(Len(data.charges) + 1, "succeeded", 1000, clock)>>
                   \o data.charges)

InitInsights ==
    /\ cache = << >>
    /\ now = 0
    /\ ticks = 0
    /\ upstream = 0
    /\ calls = [c \in Calls |-> IdleCall]
    /\ lastStore = [id \in Customers |-> NoEntry]
    /\ processedEvents = {}
    /\ deliveries = [d \in Deliveries |-> IdleDelivery]
    /\ staleEntries = {}
    /\ pendingInval = {}
    /\ track = FALSE
    /\ account = NoAccount
    /\ fetches = IdleFetches
    /\ outcome = NoOutcome
    /\ data \in InitialData
    /\ clock = Today
    /\ changes = 0
    /\ insights = calculateCustomerInsights(data, clock)
    /\ Unmounted
    /\ DetailsUnmounted

NextInsights ==
    \/ \E status \in {"succeeded", "failed"} : SettleCharge(status)
    \/ DisputeCharge
    \/ \E amount \in {500, 999} : RefundCharge(amount)
    \/ NewCharge

SpecInsights == InitInsights /\ [][NextInsights]_vars

\* ------------------------------------------- calculateCustomerInsights, applied
\* The aggregation applied to small inputs, the empty one among them, and applied
\* again when the same records arrive in another order.
RecordCounts == {0, 2, 3, 11, 12}
RecordedCharges(n, gap, mixed) ==
    [i \in 1..n |->
        [Charge(i, IF i % 4 = 0 THEN "failed" ELSE "succeeded",
                1000 * (((i - 1) % 3) + 1), Today - i * gap)
         EXCEPT !.payment_method_type =
                    IF ~mixed THEN "card"
                    ELSE IF i % 4 = 0 THEN ""
                    ELSE IF i % 4 = 1 THEN "card" ELSE "us_bank_account"]]
SubscriptionLists ==
    { << >>,
      <<Subscription("sub_1", "active", "month", 1, 2000, Today + 5 * SecondsPerDay)>>,
      <<Subscription("sub_1", "active", "week", 1, 1000, Today + 3 * SecondsPerDay),
        Subscription("sub_2", "canceled", "year", 1, 24000, Today - SecondsPerDay)>>,
      <<Subscription("sub_1", "canceled", "month", 1, 1000, Today - SecondsPerDay),
        Subscription("sub_2", "active", "year", 1, 12000, Today + 90 * SecondsPerDay),
        Subscription("sub_3", "unpaid", "month", 1, 500, Today),
        Subscription("sub_4", "active", "month", 3, 3000, Today + 2 * SecondsPerDay),
        Subscription("sub_5", "trialing", "", 0, 0, Today + 7 * SecondsPerDay)>> }
RecordedData ==
    { CustomerData([id |-> "cus_A", created |-> created],
                   RecordedCharges(n, gap, mixed), subscriptions) :
        created \in {0, Today - 10 * SecondsPerDay},
        n \in RecordCounts, gap \in {3600, SecondsPerDay}, mixed \in BOOLEAN,
        subscriptions \in SubscriptionLists }

\* const insights = calculateCustomerInsights(data)
Calculate ==
    /\ insights = NoInsights
    /\ insights' = calculateCustomerInsights(data, clock)
    /\ UNCHANGED <<data, clock, changes, cacheVars, hookVars, track, collectVars,
                   viewVars, badgeVars>>

Reverse(seq) == [i \in 1..Len(seq) |-> seq[Len(seq) + 1 - i]]

\* The same charges arrive oldest first instead of newest first.
ReverseCharges ==
    /\ insights # NoInsights
    /\ Len(data.charges) > 1
    /\ Recalculate(Reverse(data.charges))

\* The same charges arrive with the first one moved to the end.
RotateCharges ==
    /\ insights # NoInsights
    /\ Len(data.charges) > 1
    /\ Recalculate(Tail(data.charges) \o <<Head(data.charges)>>)

InitAggregate ==
    /\ cache = << >>
    /\ now = 0
    /\ ticks = 0
    /\ upstream = 0
    /\ calls = [c \in Calls |-> IdleCall]
    /\ lastStore = [id \in Customers |-> NoEntry]
    /\ processedEvents = {}
    /\ deliveries = [d \in Deliveries |-> IdleDelivery]
    /\ staleEntries = {}
    /\ pendingInval = {}
    /\ track = FALSE
    /\ account = NoAccount
    /\ fetches = IdleFetches
    /\ outcome = NoOutcome
    /\ data \in RecordedData
    /\ clock = Today
    /\ changes = 0
    /\ insights = NoInsights
    /\ Unmounted
    /\ DetailsUnmounted

NextAggregate ==
    \/ Calculate
    \/ ReverseCharges
    \/ RotateCharges

SpecAggregate == InitAggregate /\ [][NextAggregate]_vars

\* ------------------------------------------------------ the view, rendered
InitView ==
    /\ cache = << >>
    /\ now = 0
    /\ ticks = 0
    /\ upstream = 0
    /\ calls = [c \in Calls |-> IdleCall]
    /\ lastStore = [id \in Customers |-> NoEntry]
    /\ processedEvents = {}
    /\ deliveries = [d \in Deliveries |-> IdleDelivery]
    /\ staleEntries = {}
    /\ pendingInval = {}
    /\ track = FALSE
    /\ account = NoAccount
    /\ fetches = IdleFetches
    /\ outcome = NoOutcome
    /\ data = NoCustomerData
    /\ clock = Today
    /\ changes = 0
    /\ insights = NoInsights
    /\ mounted = FALSE
    /\ viewCustomerId \in Customers \cup {""}
    /\ state = InitialState
    /\ loads = << >>
    /\ DetailsUnmounted

NextView ==
    \/ Mount
    \/ \E id \in Customers : ContextChange(id)
    \/ \E l \in Loads : LoadResolve(l)
    \/ \E l \in Loads : LoadReject(l)
    \/ Retry

SpecView == InitView /\ [][NextView]_vars

\* ------------------------------------------- the CustomerDetails view
\* What Stripe may hold for a customer: no or two charges, and no
\* subscription, a canceled one, or a canceled and an active one.
HeldCharges == {<< >>, <<Charge(1, "succeeded", 1000, 0), Charge(2, "failed", 2000, 0)>>}
HeldSubscriptions ==
    {<< >>,
     <<Subscription("sub_1", "canceled", "month", 1, 1000, 0)>>,
     <<Subscription("sub_1", "canceled", "month", 1, 1000, 0),
       Subscription("sub_2", "active", "year", 1, 12000, 0)>>}
HeldRecords ==
    {[charges |-> c, subscriptions |-> s] : c \in HeldCharges, s \in HeldSubscriptions}

InitBadge ==
    /\ cache = << >>
    /\ now = 0
    /\ ticks = 0
    /\ upstream = 0
    /\ calls = [c \in Calls |-> IdleCall]
    /\ lastStore = [id \in Customers |-> NoEntry]
    /\ processedEvents = {}
    /\ deliveries = [d \in Deliveries |-> IdleDelivery]
    /\ staleEntries = {}
    /\ pendingInval = {}
    /\ track = FALSE
    /\ account = NoAccount
    /\ fetches = IdleFetches
    /\ outcome = NoOutcome
    /\ data = NoCustomerData
    /\ clock = 0
    /\ changes = 0
    /\ insights = NoInsights
    /\ Unmounted
    /\ records \in [Customers -> HeldRecords]
    /\ detailsMounted = FALSE
    /\ detailsCustomerId \in Customers \cup {""}
    /\ statusInfo = Null
    /\ loading = TRUE
    /\ analyses = << >>

NextBadge ==
    \/ DetailsMount
    \/ \E id \in Customers : DetailsContextChange(id)
    \/ \E a \in Analyses : ChargesResolve(a)
    \/ \E a \in Analyses : ChargesReject(a)
    \/ \E a \in Analyses : SubscriptionsResolve(a)
    \/ \E a \in Analyses : SubscriptionsReject(a)
    \/ \E a \in Analyses : AnalyzeResolve(a)
    \/ \E a \in Analyses : AnalyzeReject(a)

SpecBadge == InitBadge /\ [][NextBadge]_vars

\* The same system, recording which keys were invalidated since the last call
\* for them and which entries hold data read before an invalidation.
InitRace == InitState /\ track = TRUE
SpecRace == InitRace /\ [][Next]_vars

\* ================================================================== claims
\* The ids a delivery passed to invalidateCache, and the responses it sent.
InvalidatedBy(log) ==
    LET idx == {i \in 1..Len(log) : log[i][1] = "invalidateCache"}
    IN [i \in 1..Cardinality(idx) |->
          log[CHOOSE j \in idx : Cardinality({k \in idx : k < j}) = i - 1][2]]
Responses(log) == Cardinality({i \in 1..Len(log) : log[i][1] = "respond"})

\* The customer an event is about, read off the event itself.
InvalidatingTypes ==
    {"customer.updated", "charge.succeeded", "charge.failed",
     "subscription.created", "subscription.deleted"}
Subject(e) ==
    IF ~e.object.defined THEN ""
    ELSE IF e.type \in {"customer.created", "customer.updated"} THEN e.object.id
    ELSE e.object.customer.id

\* Delivery d is being received in this step.
Receiving(d) == deliveries[d].pc = "idle" /\ deliveries'[d].pc # "idle"
\* Call c is being started in this step.
Starting(c) == calls[c].pc = "idle" /\ calls'[c].pc # "idle"
\* Call c runs its cache.set in this step.
Storing(c) == calls[c].pc = "fetched" /\ calls'[c].pc = "returned"

\* C1: when a correctly signed notification of an invalidating type for
\* customer E is delivered again after its first delivery was answered, the
\* first delivery has called invalidateCache(E) exactly once, the second calls
\* it not at all and leaves the cache alone, and both are answered with 200.
C1_DuplicateInvalidatesOnce ==
    [][\A d1, d2 \in Deliveries :
         ( /\ d1 # d2
           /\ deliveries[d1].pc = "done" /\ deliveries[d1].kind = "genuine"
           /\ ~deliveries[d1].duplicate /\ deliveries[d1].status = 200
           /\ deliveries[d1].event.type \in InvalidatingTypes
           /\ Subject(deliveries[d1].event) # ""
           /\ Receiving(d2)
           /\ deliveries'[d2].kind = "genuine"
           /\ deliveries'[d2].event.id = deliveries[d1].event.id )
         => /\ InvalidatedBy(deliveries[d1].log) = <<Subject(deliveries[d1].event)>>
            /\ deliveries'[d2].pc = "done"
            /\ deliveries'[d2].status = 200
            /\ Responses(deliveries'[d2].log) = 1
            /\ InvalidatedBy(deliveries'[d2].log) = << >>
            /\ cache' = cache]_vars

C1_Witness ==
    \E d1, d2 \in Deliveries :
        /\ d1 # d2
        /\ deliveries[d1].pc = "done" /\ deliveries[d2].pc = "done"
        /\ deliveries[d1].kind = "genuine" /\ deliveries[d2].kind = "genuine"
        /\ deliveries[d1].event.id = deliveries[d2].event.id
        /\ deliveries[d1].event.type \in InvalidatingTypes
        /\ Subject(deliveries[d1].event) # ""
        /\ ~deliveries[d1].duplicate /\ deliveries[d2].duplicate
        /\ deliveries[d1].status = 200 /\ deliveries[d2].status = 200
        /\ Len(InvalidatedBy(deliveries[d1].log)) = 1
        /\ Len(InvalidatedBy(deliveries[d2].log)) = 0

\* C2: a delivery whose signature does not verify (tampered body or wrong
\* secret) is answered 400 in the step that receives it, without a call of
\* handleWebhook, with the cache and processedEvents unchanged.
C2_BadSignatureRejected ==
    [][\A d \in Deliveries :
         (Receiving(d) /\ deliveries'[d].kind # "genuine")
         => /\ deliveries'[d].pc = "done"
            /\ deliveries'[d].status = 400
            /\ deliveries'[d].log = <<Did("respond", "error")>>
            /\ cache' = cache
            /\ processedEvents' = processedEvents]_vars

C2_Witness ==
    \E d1, d2 \in Deliveries :
        /\ deliveries[d1].pc = "done" /\ deliveries[d1].kind = "tampered"
        /\ deliveries[d1].status = 400
        /\ deliveries[d2].pc = "done" /\ deliveries[d2].kind = "wrong_secret"
        /\ deliveries[d2].status = 400
        /\ DOMAIN cache = Customers
        /\ processedEvents = {}

\* C3: a delivery has no response until it is done and exactly one then:
\* 400 if and only if its signature did not verify, 200 if it was a duplicate
\* or its dispatch completed, 500 if its dispatch raised an error.
C3_OneResponse ==
    \A d \in Deliveries :
        LET r == deliveries[d]
        IN /\ r.pc # "done" => Responses(r.log) = 0 /\ r.status = 0
           /\ r.pc = "done" =>
                /\ Responses(r.log) = 1
                /\ r.log[Len(r.log)][1] = "respond"
                /\ r.status \in {200, 400, 500}
                /\ r.status = 400 <=> r.kind # "genuine"
                /\ r.status = 200 <=>
                      r.kind = "genuine" /\ (r.duplicate \/ r.error = NoError)
                /\ r.status = 500 <=>
                      r.kind = "genuine" /\ ~r.duplicate /\ r.error # NoError

C3_Witness ==
    \E d1, d2 \in Deliveries :
        /\ deliveries[d1].pc = "done" /\ deliveries[d1].status = 500
        /\ deliveries[d1].kind = "genuine" /\ ~deliveries[d1].event.object.defined
        /\ deliveries[d2].pc = "done" /\ deliveries[d2].status = 400

\* C4: a verified delivery that is no duplicate logs handleWebhook first, then
\* its invalidateCache calls, then markEventProcessed, then the response; its
\* event id is in processedEvents once it is answered 200; an id is in
\* processedEvents only through a delivery whose dispatch completed, and a
\* redelivery of an id whose deliveries all failed is dispatched again.
C4_Order(r) ==
    LET n == Len(r.log)
    IN /\ n >= 3
       /\ r.log[1] = Did("handleWebhook", r.event.type)
       /\ \A i \in 2..(n - 2) : r.log[i][1] = "invalidateCache"
       /\ r.log[n - 1] = Did("markEventProcessed", r.event.id)
       /\ r.log[n] = Did("respond", "received")
       /\ r.event.id \in processedEvents

C4_State ==
    /\ \A d \in Deliveries :
         LET r == deliveries[d]
         IN /\ (r.pc = "done" /\ r.kind = "genuine" /\ ~r.duplicate /\ r.status = 200)
                 => C4_Order(r)
            /\ r.pc = "awaiting" =>
                 /\ r.log[1] = Did("handleWebhook", r.event.type)
                 /\ \A i \in 2..Len(r.log) : r.log[i][1] = "invalidateCache"
    /\ \A e \in Events :
         e.id \in processedEvents <=>
            \E d \in Deliveries :
               /\ deliveries[d].pc = "done" /\ deliveries[d].event.id = e.id
               /\ ~deliveries[d].duplicate /\ deliveries[d].error = NoError

C4_DispatchMarkRespond ==
    /\ []C4_State
    /\ [][\A d1, d2 \in Deliveries :
            ( /\ d1 # d2
              /\ deliveries[d1].pc = "done" /\ deliveries[d1].status = 500
              /\ \A d \in Deliveries :
                    deliveries[d].event.id = deliveries[d1].event.id
                    => deliveries[d].status # 200
              /\ Receiving(d2)
              /\ deliveries'[d2].kind = "genuine"
              /\ deliveries'[d2].event.id = deliveries[d1].event.id )
            => /\ deliveries'[d2].pc = "awaiting"
               /\ deliveries'[d2].log[1] =
                     Did("handleWebhook", deliveries'[d2].event.type)]_vars

C4_Witness ==
    \E d1, d2 \in Deliveries :
        /\ d1 < d2
        /\ deliveries[d1].pc = "done" /\ deliveries[d1].status = 500
        /\ deliveries[d2].event.id = deliveries[d1].event.id
        /\ deliveries[d2].pc = "done" /\ ~deliveries[d2].duplicate
        /\ deliveries[d2].log[1] = Did("handleWebhook", deliveries[d2].event.type)
        /\ deliveries[d1].event.id \notin processedEvents

\* C5: a call with bypassCache = false for a key whose last store was neither
\* followed by an invalidateCache of the key nor is CACHE_TTL or more in the
\* past returns at once exactly the data of that store and sends no request.
C5_HitWithinTTL ==
    [][\A c \in Calls :
         LET id == calls'[c].id
         IN ( /\ Starting(c)
              /\ ~calls'[c].bypass
              /\ lastStore[id] # NoEntry
              /\ now - lastStore[id].timestamp < CACHE_TTL )
            => /\ calls'[c].pc = "returned"
               /\ calls'[c].result = lastStore[id].data
               /\ calls'[c].requests = 0
               /\ cache' = cache]_vars

C5_Witness ==
    \E c \in Calls :
        /\ calls[c].pc = "returned" /\ calls[c].requests = 0
        /\ lastStore[calls[c].id] # NoEntry
        /\ calls[c].result = lastStore[calls[c].id].data
        /\ calls[c].result.version < upstream
        /\ now > lastStore[calls[c].id].timestamp

\* C6 as claimed: a call for a key that invalidateCache was called for since
\* the last call for the key is a miss and sends its own upstream request.
C6_NextCallAfterInvalidateMisses ==
    [][\A c \in Calls :
         (Starting(c) /\ calls'[c].id \in pendingInval)
         => calls'[c].pc = "fetching" /\ calls'[c].requests = 1]_vars

\* C7: a call with bypassCache = false returns the cached data only if the key
\* has an entry and now - entry.timestamp < CACHE_TTL; with an entry of age
\* CACHE_TTL or more it sends an upstream request, and its store replaces the
\* entry by the data it fetched and the time of the store.
C7_ExpiryIsAMiss ==
    [][\A c \in Calls :
         LET id == calls'[c].id
         IN /\ (Starting(c) /\ calls'[c].pc = "returned")
                 => /\ CacheHas(cache, id)
                    /\ now - cache[id].timestamp < CACHE_TTL
                    /\ calls'[c].result = cache[id].data
            /\ ( /\ Starting(c) /\ ~calls'[c].bypass
                 /\ CacheHas(cache, id)
                 /\ now - cache[id].timestamp >= CACHE_TTL )
                 => /\ calls'[c].pc = "fetching"
                    /\ calls'[c].requests = 1
                    /\ calls'[c].sawEntry
                    /\ cache' = cache
            /\ Storing(c)
                 => /\ CacheHas(cache', id)
                    /\ cache'[id] = [data |-> calls[c].data, timestamp |-> now]
                    /\ calls[c].data.customer = id]_vars

C7_Witness ==
    \E c \in Calls :
        /\ calls[c].pc = "returned" /\ calls[c].requests = 1
        /\ calls[c].sawEntry
        /\ CacheHas(cache, calls[c].id)
        /\ cache[calls[c].id].timestamp >= CACHE_TTL
        /\ cache[calls[c].id].data = calls[c].result

\* C8 as claimed: a cache hit never returns an entry whose data was read from
\* upstream before an invalidateCache of its key.
C8_NoStaleHitAfterInvalidate ==
    [][\A c \in Calls :
         (Starting(c) /\ calls'[c].pc = "returned")
         => calls'[c].id \notin staleEntries]_vars

\* C9: invalidateCache(id), a store for id and a failed fetch for id leave the
\* entry of every other key as it was.
C9_OtherKeysUnchanged ==
    [][\A id \in Customers :
         ( \/ InvalidateCacheCall(id)
           \/ \E c \in Calls : calls[c].id = id /\ (Store(c) \/ FetchFail(c)) )
         => \A other \in Customers \ {id} :
               /\ CacheHas(cache', other) <=> CacheHas(cache, other)
               /\ CacheGet(cache', other) = CacheGet(cache, other)]_vars

C9_Witness ==
    \E id, other \in Customers :
        /\ id # other
        /\ CacheHas(cache, other) /\ ~CacheHas(cache, id)
        /\ \E c \in Calls :
              calls[c].id = id /\ calls[c].pc = "returned" /\ calls[c].requests = 1
        /\ \E c \in Calls :
              calls[c].id = other /\ calls[c].pc = "returned"
              /\ cache[other].data = calls[c].result

\* C10: every call in flight has sent its own upstream request, and a key's
\* entry is exactly the data and timestamp of the store that ran last for it,
\* whatever earlier stores of concurrent calls wrote.
C10_LastWriterWins ==
    /\ \A c \in Calls :
          calls[c].pc \in {"fetching", "fetched"} => calls[c].requests = 1
    /\ \A id \in Customers :
          /\ lastStore[id] # NoEntry => CacheHas(cache, id)
          /\ CacheHas(cache, id) => cache[id] = lastStore[id]

C10_Witness ==
    /\ calls[1].pc = "returned" /\ calls[2].pc = "returned"
    /\ calls[1].id = calls[2].id
    /\ calls[1].requests = 1 /\ calls[2].requests = 1
    /\ ~calls[1].sawEntry /\ ~calls[2].sawEntry
    /\ calls[1].result # calls[2].result
    /\ CacheHas(cache, calls[1].id)
    /\ cache[calls[1].id].data = calls[1].result

\* C11: while the call awaits fetchCustomerData, a step in which one of the
\* five fetches rejects makes the call throw, with no StripeCustomerData and
\* no result; a call returns fetched data only when all five fetches resolved;
\* and from the call of fetchCustomerData until it returns, and after it threw,
\* the cache stays as it was.
C11_FailFast ==
    /\ [](calls[1].pc = "thrown" =>
            /\ outcome.bundle = NoBundle /\ calls[1].result = NoData
            /\ outcome.error # NoFailure
            /\ \E r \in Resources : fetches[r].pc = "rejected")
    /\ []((calls[1].pc = "returned" /\ calls[1].requests = 1) =>
            /\ \A r \in Resources : fetches[r].pc = "resolved"
            /\ outcome.bundle = Bundle(fetches) /\ outcome.error = NoFailure)
    /\ [][/\ ( /\ calls[1].pc = "fetching"
               /\ \E r \in Resources :
                     fetches[r].pc = "pending" /\ fetches'[r].pc = "rejected" )
               => calls'[1].pc = "thrown"
          /\ ( \/ calls[1].pc = "fetching" /\ calls'[1].pc # "returned"
               \/ calls[1].pc = "thrown" )
               => cache' = cache /\ calls'[1].pc # "returned"]_vars

C11_Witness ==
    /\ calls[1].pc = "thrown"
    /\ CacheHas(cache, calls[1].id)
    /\ fetches["customer"].pc = "resolved"
    /\ fetches["charges"].pc = "resolved" /\ Len(fetches["charges"].items) > 0
    /\ fetches["invoices"].pc = "rejected"
    /\ outcome.bundle = NoBundle

\* How a caller can tell failures apart: by the type of a Stripe error, or by
\* the message of the deleted-customer error.
ErrorClass(error) ==
    CASE error.type = "StripeInvalidRequestError" -> "NotFound"
      [] error = CustomerDeleted -> "NotFound"
      [] error.type \in {"StripeRateLimitError", "StripeConnectionError"} ->
             "UpstreamUnavailable"
      [] OTHER -> "Generic"

\* C12 as claimed: the error a failed fetchCustomerData call throws tells the
\* caller whether the customer was not found (unknown or deleted) or Stripe
\* was unavailable, as the error of the fetch that failed did.
C12_TypedFailures ==
    calls[1].pc = "thrown" =>
        /\ ErrorClass(outcome.error) \in {"NotFound", "UpstreamUnavailable"}
        /\ ErrorClass(outcome.error) = ErrorClass(outcome.cause)

\* The in-order concatenation of the pages received.
RECURSIVE ConcatPages(_)
ConcatPages(pages) ==
    IF pages = << >> THEN << >>
    ELSE ConcatPages(SubSeq(pages, 1, Len(pages) - 1)) \o pages[Len(pages)].data

\* C13: for each paginated fetch the first request carries no cursor, every
\* later one the id of the last object of the page before it; every page but
\* the last received reported has_more, a fetch still running has received
\* has_more on its last page and a resolved one has_more = false; the objects
\* collected are the concatenation of the pages, and for a resolved fetch the
\* whole list at Stripe.
C13_ExhaustivePagination ==
    \A r \in Paginated :
        LET f == fetches[r]
            n == Len(f.pages)
        IN /\ Len(f.sent) = n
           /\ n >= 1 => f.sent[1] = NoCursor
           /\ \A k \in 2..n :
                 /\ f.pages[k - 1].data # << >>
                 /\ f.sent[k] = f.pages[k - 1].data[Len(f.pages[k - 1].data)]
           /\ \A k \in 1..(n - 1) : f.pages[k].has_more
           /\ (f.pc = "pending" /\ n >= 1) => f.pages[n].has_more
           /\ f.pc = "resolved" => n >= 1 /\ ~f.pages[n].has_more
           /\ f.items = ConcatPages(f.pages)
           /\ f.pc = "resolved" => f.items = account.lists[r]

C13_Witness ==
    /\ fetches["charges"].pc = "resolved"
    /\ Len(fetches["charges"].pages) >= 2
    /\ Len(fetches["charges"].items) > PageLimit
    /\ fetches["charges"].sent[2] = Item("charges", PageLimit)
    /\ fetches["paymentIntents"].pc = "resolved"
    /\ fetches["paymentIntents"].items = << >>
    /\ fetches["invoices"].pc = "resolved"
    /\ Len(fetches["invoices"].pages) = 1
    /\ Len(fetches["invoices"].items) = PageLimit

\* C14: when handleWebhook is called for an event of type customer.updated,
\* charge.succeeded, charge.failed, subscription.created or
\* subscription.deleted that names a customer, invalidateCache is called for
\* that customer only: its entry is gone afterwards and every other entry is
\* as before; for customer.created no invalidateCache is called and the cache
\* is unchanged.
C14_DispatchByType ==
    [][\A d \in Deliveries :
         LET e == deliveries'[d].event
         IN (Receiving(d) /\ deliveries'[d].pc = "awaiting") =>
              /\ (e.type \in InvalidatingTypes /\ Subject(e) # "") =>
                   /\ InvalidatedBy(deliveries'[d].log) = <<Subject(e)>>
                   /\ ~CacheHas(cache', Subject(e))
                   /\ DOMAIN cache' = (DOMAIN cache) \ {Subject(e)}
                   /\ \A other \in DOMAIN cache' : cache'[other] = cache[other]
                   /\ deliveries'[d].error = NoError
              /\ (e.type = "customer.created" /\ Subject(e) # "") =>
                   /\ InvalidatedBy(deliveries'[d].log) = << >>
                   /\ cache' = cache
                   /\ deliveries'[d].error = NoError]_vars

C14_Witness ==
    \E d1, d2 \in Deliveries :
        /\ deliveries[d1].pc = "done" /\ deliveries[d1].status = 200
        /\ deliveries[d1].event.type = "charge.failed"
        /\ deliveries[d1].event.object.customer.kind = "object"
        /\ InvalidatedBy(deliveries[d1].log) = <<"cus_A">>
        /\ deliveries[d2].pc = "done" /\ deliveries[d2].status = 200
        /\ deliveries[d2].event.type = "customer.created"
        /\ InvalidatedBy(deliveries[d2].log) = << >>
        /\ DOMAIN cache = {"cus_B"}

\* The event types handleWebhook has a case for.
KnownTypes == InvalidatingTypes \cup {"customer.created"}

\* C15: a verified delivery, not a duplicate, of an event whose type
\* handleWebhook has no case for is dispatched without an invalidateCache
\* call, a cache change or an error, and its continuation answers 200 and
\* adds the event id to processedEvents.
C15_UnknownTypeIgnored ==
    [][\A d \in Deliveries :
         LET e == deliveries'[d].event
         IN /\ ( /\ Receiving(d) /\ deliveries'[d].kind = "genuine"
                 /\ ~deliveries'[d].duplicate /\ e.type \notin KnownTypes )
               => /\ deliveries'[d].pc = "awaiting"
                  /\ deliveries'[d].log = <<Did("handleWebhook", e.type)>>
                  /\ deliveries'[d].error = NoError
                  /\ cache' = cache
            /\ ( /\ deliveries[d].pc = "awaiting" /\ deliveries'[d].pc = "done"
                 /\ e.type \notin KnownTypes )
               => /\ deliveries'[d].status = 200
                  /\ e.id \in processedEvents'
                  /\ cache' = cache]_vars

C15_Witness ==
    \E d \in Deliveries :
        /\ deliveries[d].pc = "done" /\ deliveries[d].kind = "genuine"
        /\ deliveries[d].event.type = "invoice.paid"
        /\ ~deliveries[d].duplicate
        /\ deliveries[d].status = 200
        /\ deliveries[d].event.id \in processedEvents
        /\ DOMAIN cache = Customers

\* An amount in the major unit, counted in minor units.
MinorUnits(dollars) == dollars.whole * 100 + dollars.hundredths

\* The sum of f over the charges whose index is in S.
RECURSIVE SumOver(_, _, _)
SumOver(S, charges, field) ==
    IF S = {} THEN 0
    ELSE LET i == CHOOSE k \in S : TRUE
         IN (IF field = "amount" THEN charges[i].amount
             ELSE charges[i].amount_refunded)
            + SumOver(S \ {i}, charges, field)

ScenarioA ==
    /\ Len(data.charges) = 3
    /\ \A i \in 1..3 : /\ data.charges[i].status = "succeeded"
                       /\ data.charges[i].amount = 1000 * i
    /\ data.charges[1].amount_refunded = 500
    /\ data.charges[2].amount_refunded = 0 /\ data.charges[3].amount_refunded = 0

\* C17 as claimed: in scenario A lifetimeValue.total is the number 5500.
C17_TotalInMinorUnits ==
    ScenarioA => insights.lifetimeValue.total = [whole |-> 5500, hundredths |-> 0]

\* C17, amended: lifetimeValue.total is the sum of amount over the succeeded
\* charges (those not on an invoice in oneTime, those on an invoice in
\* subscription) minus the sum of amount_refunded over all charges whatever
\* their status, divided by 100, that is in the currency's major unit; in
\* scenario A it is 55.
C17_TotalInMajorUnits ==
    LET v == insights.lifetimeValue
        ch == data.charges
        succeeded == {i \in 1..Len(ch) : ch[i].status = "succeeded"}
        invoiced == {i \in succeeded : ch[i].invoice # ""}
    IN /\ MinorUnits(v.total) =
             SumOver(succeeded, ch, "amount")
             - SumOver(1..Len(ch), ch, "amount_refunded")
       /\ MinorUnits(v.breakdown.oneTime) = SumOver(succeeded \ invoiced, ch, "amount")
       /\ MinorUnits(v.breakdown.subscription) = SumOver(invoiced, ch, "amount")
       /\ MinorUnits(v.breakdown.refunded) = SumOver(1..Len(ch), ch, "amount_refunded")
       /\ ScenarioA => v.total = [whole |-> 55, hundredths |-> 0]

C17_Witness ==
    /\ ScenarioA
    /\ insights.lifetimeValue.total = [whole |-> 55, hundredths |-> 0]
    /\ insights.lifetimeValue.breakdown.refunded = [whole |-> 5, hundredths |-> 0]

\* What assessRisk reads from the data: the numbers of charges, of failed and
\* of disputed ones, whether the account is under a month old with a large
\* charge, and whether the charges span under seven days.
Failed(d) == Cardinality({i \in 1..Len(d.charges) : d.charges[i].status = "failed"})
Disputed(d) == Cardinality({i \in 1..Len(d.charges) : d.charges[i].disputed})
NewWithLarge(d, t) ==
    /\ d.customer.created = 0 \/ t - d.customer.created < 30 * 86400
    /\ \E i \in 1..Len(d.charges) : d.charges[i].amount > 50000
Within7Days(d) ==
    d.charges = << >>
    \/ d.charges[1].created - d.charges[Len(d.charges)].created < 7 * 86400
Rapid(d) == Len(d.charges) > 10 /\ Within7Days(d)

\* C18: in every bundle calculated, riskAssessment.score is between 0 and 100.
C18_ScoreInRange ==
    insights.riskAssessment.score \in 0..100

C18_Witness ==
    /\ insights.riskAssessment.score >= 70
    /\ Len(insights.riskAssessment.factors) >= 2
    /\ insights.riskAssessment.recommendation = "high_risk"

\* C19 as claimed: when the records change so that only the failure rate is
\* higher (a pending charge fails), or only the number of disputed charges (a
\* charge is disputed), or only the number of charges within seven days (one
\* more charge, at the same failure rate and the same number of disputed
\* charges), the account's age and large charges being the same, the score
\* calculated afterwards is not lower than the one before.
C19_ScoreMonotone ==
    [][LET n == Len(data.charges)
           m == Len(data'.charges)
       IN ( /\ NewWithLarge(data', clock') = NewWithLarge(data, clock)
            /\ \/ /\ m = n /\ Disputed(data') = Disputed(data)
                  /\ Failed(data') > Failed(data)
               \/ /\ m = n /\ Failed(data') = Failed(data)
                  /\ Disputed(data') > Disputed(data)
               \/ /\ m > n /\ Disputed(data') = Disputed(data)
                  /\ Failed(data') * n = Failed(data) * m
                  /\ Within7Days(data) /\ Within7Days(data') )
          => insights'.riskAssessment.score >= insights.riskAssessment.score]_vars

\* Scenario B: four charges, one succeeded and three failed.
ScenarioB ==
    /\ Len(data.charges) = 4
    /\ Failed(data) = 3
    /\ Cardinality({i \in 1..4 : data.charges[i].status = "succeeded"}) = 1

\* The factor of a type in a list of factors, if there is one.
FactorsOf(factors, type) == {i \in 1..Len(factors) : factors[i].type = type}

\* C20: the score is the sum, capped at 100, of: 15 for a failure rate above
\* 0.3 (severity medium) or 30 above 0.5 (severity high); 20 for at least one
\* disputed charge or 40 when disputed / total is above 0.01; 15 for an account
\* under a month old with a charge above 50000; 10 for more than 10 charges
\* spanning under 7 days; each factor is listed exactly when it adds points.
\* In scenario B successRate is 25 and a payment_failures factor of severity
\* high adds 30.
C20_ScoreIsCappedSum ==
    LET r == insights.riskAssessment
        n == Len(data.charges)
        failures == IF Failed(data) * 10 > 3 * n
                    THEN (IF Failed(data) * 2 > n THEN 30 ELSE 15) ELSE 0
        disputes == IF Disputed(data) >= 1
                    THEN (IF Disputed(data) * 100 > n THEN 40 ELSE 20) ELSE 0
        newLarge == IF NewWithLarge(data, clock) THEN 15 ELSE 0
        rapid == IF Rapid(data) THEN 10 ELSE 0
        sum == failures + disputes + newLarge + rapid
        listed(type) == Cardinality(FactorsOf(r.factors, type))
    IN /\ r.score = IF sum < 100 THEN sum ELSE 100
       /\ listed("payment_failures") = IF failures > 0 THEN 1 ELSE 0
       /\ listed("high_chargeback_rate") = IF disputes > 0 THEN 1 ELSE 0
       /\ listed("new_customer_large_amount") = IF newLarge > 0 THEN 1 ELSE 0
       /\ listed("velocity_check") = IF rapid > 0 THEN 1 ELSE 0
       /\ Len(r.factors) = listed("payment_failures") + listed("high_chargeback_rate")
                           + listed("new_customer_large_amount")
                           + listed("velocity_check")
       /\ \A i \in FactorsOf(r.factors, "payment_failures") :
             r.factors[i].severity = IF failures = 30 THEN "high" ELSE "medium"
       /\ ScenarioB =>
             /\ insights.paymentPattern.successRate.num
                   = 25 * insights.paymentPattern.successRate.den
             /\ failures = 30
             /\ \E i \in FactorsOf(r.factors, "payment_failures") :
                   r.factors[i].severity = "high"
             /\ r.score = 30 + disputes + newLarge

C20_Witness ==
    /\ ScenarioB
    /\ insights.riskAssessment.score = 30
    /\ insights.paymentPattern.successRate = Ratio(100, 4)
    /\ insights.riskAssessment.factors =
          <<RiskFactor("payment_failures", "high", Ratio(3, 4))>>

\* C21: the recommendation agrees with the reported score: it is low_risk
\* exactly when the score is below 20, medium_risk exactly when the score is
\* from 20 up to 49, and high_risk exactly when the score is 50 or more.
C21_RecommendationAgrees ==
    insights # NoInsights =>
        LET risk == insights.riskAssessment
        IN /\ risk.recommendation \in {"low_risk", "medium_risk", "high_risk"}
           /\ risk.recommendation = "low_risk" <=> risk.score < 20
           /\ risk.recommendation = "medium_risk" <=> (20 <= risk.score /\ risk.score < 50)
           /\ risk.recommendation = "high_risk" <=> risk.score >= 50

\* A customer was re-assessed and scores exactly 50, the lowest high_risk score.
C21_Witness ==
    /\ changes > 0
    /\ insights # NoInsights
    /\ insights.riskAssessment.score = 50
    /\ insights.riskAssessment.recommendation = "high_risk"


\* The number zero as a quotient: no NaN, no Infinity.
IsZero(ratio) == ratio.num = 0 /\ ratio.den # 0

\* C22: applied to a customer without charges and without subscriptions, the
\* aggregation returns lifetime value 0 in every part, successRate 0 and
\* averagePaymentAmount 0 (numbers, not NaN), no payments, risk score 0 with no
\* factors and low_risk, zero subscription counts and revenue with a null
\* nextBillingDate, and null purchase dates with zero transactions.
C22_TotalOnEmptyInput ==
    (insights # NoInsights /\ data.charges = << >> /\ data.subscriptions = << >>) =>
        /\ insights.customerId = data.customer.id
        /\ insights.lifetimeValue.total = CentsToDollars(0)
        /\ insights.lifetimeValue.breakdown =
               [oneTime |-> CentsToDollars(0), subscription |-> CentsToDollars(0),
                refunded |-> CentsToDollars(0)]
        /\ insights.lifetimeValue.currency = "usd"
        /\ IsZero(insights.paymentPattern.successRate)
        /\ IsZero(insights.paymentPattern.averagePaymentAmount)
        /\ insights.paymentPattern.totalPayments = 0
        /\ insights.paymentPattern.successfulPayments = 0
        /\ insights.paymentPattern.failedPayments = 0
        /\ insights.paymentPattern.preferredPaymentMethod = Null
        /\ insights.riskAssessment =
               [score |-> 0, factors |-> << >>, recommendation |-> "low_risk"]
        /\ insights.subscriptionHealth.activeSubscriptions = 0
        /\ insights.subscriptionHealth.totalSubscriptions = 0
        /\ insights.subscriptionHealth.churnedSubscriptions = 0
        /\ IsZero(insights.subscriptionHealth.monthlyRecurringRevenue)
        /\ insights.subscriptionHealth.nextBillingDate = Null
        /\ insights.metadata =
               [firstPurchaseDate |-> Null, lastPurchaseDate |-> Null,
                daysSinceLastPurchase |-> Null, totalTransactions |-> 0]

\* The aggregation was applied to a customer with no record at all.
C22_Witness ==
    /\ insights # NoInsights
    /\ data.customer.id = "cus_A"
    /\ data.charges = << >>
    /\ data.subscriptions = << >>
    /\ insights.metadata.totalTransactions = 0


\* Two lists hold the same charges (each charge has its own id).
SameCharges(a, b) ==
    /\ Len(a) = Len(b)
    /\ {a[i] : i \in 1..Len(a)} = {b[i] : i \in 1..Len(b)}

\* C24: the aggregation does not depend on the order of the charges: when the
\* same charges of the same customer, with the same subscriptions and at the
\* same time, are aggregated in another order, the bundle is the same.
C24_OrderIndependent ==
    [][(/\ insights # NoInsights
        /\ insights' # NoInsights
        /\ SameCharges(data.charges, data'.charges)
        /\ data'.customer = data.customer
        /\ data'.subscriptions = data.subscriptions
        /\ clock' = clock)
       => insights' = insights]_vars


\* C25: every paginated fetch ends: once the collection runs and its requests
\* are answered, every paginated fetch is settled in the end; a fetch sends no
\* more requests than its list has records, plus one,
\* and no two of its requests carry the same cursor.
C25_PaginationTerminates ==
    /\ [](\A r \in Paginated :
             LET sent == fetches[r].sent
             IN /\ Len(sent) <= Len(account.lists[r]) + 1
                /\ \A i, j \in 1..Len(sent) : i # j => sent[i] # sent[j])
    /\ Collecting ~> (\A r \in Paginated : fetches[r].pc # "pending")

\* A list of more than two pages was fetched to its end, each request with a
\* cursor of its own.
C25_Witness ==
    /\ fetches["charges"].pc = "resolved"
    /\ Len(account.lists["charges"]) > 2 * PageLimit
    /\ Len(fetches["charges"].sent) >= 3
    /\ \A i, j \in 1..Len(fetches["charges"].sent) :
          i # j => fetches["charges"].sent[i] # fetches["charges"].sent[j]
    /\ fetches["charges"].items = account.lists["charges"]


\* C26: when a second delivery of an event is received after the first has
\* passed the isEventProcessed check and before the first has called
\* markEventProcessed (so that neither is answered as a duplicate), the two
\* deliveries together call invalidateCache at most once.
C26_OverlapInvalidatesOnce ==
    \A d1, d2 \in Deliveries :
        ( /\ d1 < d2
          /\ deliveries[d1].pc \in {"awaiting", "done"}
          /\ deliveries[d2].pc \in {"awaiting", "done"}
          /\ deliveries[d1].kind = "genuine" /\ deliveries[d2].kind = "genuine"
          /\ deliveries[d1].event.id = deliveries[d2].event.id
          /\ deliveries[d1].error = NoError
          /\ ~deliveries[d1].duplicate /\ ~deliveries[d2].duplicate )
        => Len(InvalidatedBy(deliveries[d1].log))
           + Len(InvalidatedBy(deliveries[d2].log)) <= 1


PaymentTypes ==
    {"charge.succeeded", "charge.failed", "subscription.created", "subscription.deleted"}

\* Delivery d carries a correctly signed charge or subscription event whose
\* object names no customer.
Anonymous(delivery) ==
    /\ delivery.kind = "genuine"
    /\ delivery.event.type \in PaymentTypes
    /\ delivery.event.object.defined
    /\ Subject(delivery.event) = ""

\* C27: a correctly signed charge or subscription notification whose object
\* names no customer, not processed before, is dispatched without any call of
\* invalidateCache and leaves the cache as it is; its continuation records the
\* event id as processed and answers 200.
C27_NoCustomerNoInvalidation ==
    [][\A d \in Deliveries :
         /\ (Receiving(d) /\ Anonymous(deliveries'[d]) /\ ~deliveries'[d].duplicate)
            => /\ deliveries'[d].pc = "awaiting"
               /\ deliveries'[d].error = NoError
               /\ InvalidatedBy(deliveries'[d].log) = << >>
               /\ cache' = cache
         /\ (deliveries[d].pc = "awaiting" /\ deliveries'[d].pc = "done"
             /\ Anonymous(deliveries[d]))
            => /\ deliveries'[d].status = 200
               /\ Responses(deliveries'[d].log) = 1
               /\ InvalidatedBy(deliveries'[d].log) = << >>
               /\ deliveries[d].event.id \in processedEvents'
               /\ cache' = cache]_vars

\* A subscription event without a customer was answered 200 and recorded, and
\* the cached entries are all still there.
C27_Witness ==
    \E d \in Deliveries :
        /\ deliveries[d].pc = "done"
        /\ Anonymous(deliveries[d])
        /\ deliveries[d].event.type = "subscription.deleted"
        /\ ~deliveries[d].duplicate
        /\ deliveries[d].status = 200
        /\ deliveries[d].event.id \in processedEvents
        /\ InvalidatedBy(deliveries[d].log) = << >>
        /\ \A id \in Customers : CacheHas(cache, id)


\* C28: pressing Retry in the error state starts a new load for the current
\* customerId: the view goes to 'loading' and one more loadInsights, for that
\* customer, is fetching.
C28_RetryStartsLoad ==
    [][Retry =>
         /\ state'.loadingState = "loading"
         /\ Len(loads') = Len(loads) + 1
         /\ loads'[Len(loads')] = Load(viewCustomerId)]_vars

\* A load that starts, or a fetch that settles, in this step.
LoadStarts == Len(loads') = Len(loads) + 1
Settles(l) == l <= Len(loads) /\ loads[l].pc = "fetching" /\ loads'[l].pc # "fetching"

\* C29: every change of customerId to a non-empty value starts exactly one
\* load, for that customer, and sets 'loading'; loads start in no other way
\* but the first effect; the settling of a fetch sets 'success' or 'error';
\* and the view is in 'loading' only while a fetch is pending.
C29_OneLoadCycle ==
    /\ [][/\ (viewCustomerId' # viewCustomerId /\ viewCustomerId' # "")
             => /\ LoadStarts
                /\ loads' = Append(loads, Load(viewCustomerId'))
                /\ state'.loadingState = "loading"
          /\ Len(loads') # Len(loads)
             => /\ LoadStarts
                /\ viewCustomerId' # viewCustomerId \/ (~mounted /\ mounted')
          /\ \A l \in Loads :
                Settles(l) => state'.loadingState \in {"success", "error"}]_vars
    /\ [](state.loadingState = "loading"
            => \E l \in 1..Len(loads) : loads[l].pc = "fetching")

\* The customer changed twice after the first effect, three loads ran and all
\* of them have settled, the last one in error.
C29_Witness ==
    /\ Len(loads) = 3
    /\ \A l \in 1..Len(loads) : loads[l].pc # "fetching"
    /\ loads[1].customerId # loads[2].customerId
    /\ loads[3].pc = "rejected"
    /\ state.loadingState = "error"

\* C30: whenever the view is in 'success', the insights it holds are those of
\* the current customerId.
C30_InsightsOfCurrentCustomer ==
    state.loadingState = "success" => state.insights.customerId = viewCustomerId


\* C31: the state of the view is consistent: in 'success' the insights are
\* present and the error is null, in 'error' the insights are null and the
\* error is present; after every settled load and every press of Retry.
C31_StateConsistent ==
    /\ state.loadingState = "success" => (state.insights # Null /\ state.error = Null)
    /\ state.loadingState = "error" => (state.insights = Null /\ state.error # Null)
    /\ state.loadingState \in {"idle", "loading", "success", "error"}

\* One load has resolved, a later one was rejected, and Retry was pressed on
\* its error: the view is idle and still holds the error message.
C31_Witness ==
    /\ Len(loads) >= 2
    /\ loads[1].pc = "resolved"
    /\ loads[2].pc = "rejected"
    /\ state.loadingState = "idle"
    /\ state.insights = Null
    /\ state.error # Null


\* C32: a call with bypassCache = true never returns the cached entry: it
\* starts an upstream fetch and leaves the cache alone, also when a fresh entry
\* exists, and when its fetch has succeeded it returns the fetched data and
\* replaces the entry of its key, and of no other key, by that data with the
\* time of the store.
C32_BypassAlwaysFetches ==
    [][\A c \in Calls :
         /\ (Starting(c) /\ calls'[c].bypass)
            => /\ calls'[c].pc = "fetching"
               /\ calls'[c].requests = 1
               /\ cache' = cache
         /\ (Storing(c) /\ calls[c].bypass)
            => LET id == calls[c].id
               IN /\ calls'[c].result = calls[c].data
                  /\ calls'[c].requests = 1
                  /\ CacheHas(cache', id)
                  /\ CacheGet(cache', id) = [data |-> calls[c].data, timestamp |-> now]
                  /\ \A other \in Customers \ {id} :
                        /\ CacheHas(cache', other) <=> CacheHas(cache, other)
                        /\ CacheHas(cache, other)
                           => CacheGet(cache', other) = CacheGet(cache, other)]_vars

\* After a call for a key had returned, a bypassing call for the same key has
\* fetched and returned newer data, which is now the entry, stored at a later
\* time within the TTL of the start.
C32_Witness ==
    \E c, b \in Calls :
        /\ b < c
        /\ calls[b].pc = "returned" /\ calls[c].pc = "returned"
        /\ calls[b].id = calls[c].id
        /\ calls[c].bypass
        /\ calls[c].requests = 1
        /\ calls[c].result.version > calls[b].result.version
        /\ CacheGet(cache, calls[c].id).data = calls[c].result
        /\ CacheGet(cache, calls[c].id).timestamp > 0
        /\ CacheGet(cache, calls[c].id).timestamp < CACHE_TTL


\* Two quotients are the same number.
RatioEqual(x, y) == x.den # 0 /\ y.den # 0 /\ x.num * y.den = y.num * x.den

\* The per-period amount of a price as an amount per month, in cents: a yearly
\* price divided by 12, a monthly price divided by its interval count, and a
\* weekly or daily price at 52 weeks or 365 days to the 12 months.
NormalizedToMonth(sub) ==
    LET count == IF sub.interval_count # 0 THEN sub.interval_count ELSE 1
    IN CASE sub.interval = "year" -> Ratio(sub.unit_amount, 12)
         [] sub.interval = "month" -> Ratio(sub.unit_amount, count)
         [] sub.interval = "week" -> Ratio(sub.unit_amount * 52, 12 * count)
         [] sub.interval = "day" -> Ratio(sub.unit_amount * 365, 12 * count)
         [] OTHER -> Ratio(sub.unit_amount, 1)

RECURSIVE SumNormalized(_)
SumNormalized(subs) ==
    IF subs = << >> THEN Ratio(0, 1)
    ELSE RatioAdd(SumNormalized(Tail(subs)), NormalizedToMonth(Head(subs)))

CountStatus(subs, statuses) ==
    Cardinality({i \in 1..Len(subs) : subs[i].status \in statuses})

\* C33: analyzeSubscriptions counts the active subscriptions, all
\* subscriptions and the churned ones (canceled or unpaid), so that active +
\* churned <= total, and monthlyRecurringRevenue, times 100, is the sum over
\* the active subscriptions of the per-period amount normalized to one month.
C33_SubscriptionHealth ==
    insights # NoInsights =>
        LET health == insights.subscriptionHealth
            subs == data.subscriptions
            active == SelectSeq(subs, LAMBDA sub : sub.status = "active")
        IN /\ health.activeSubscriptions = CountStatus(subs, {"active"})
           /\ health.totalSubscriptions = Len(subs)
           /\ health.churnedSubscriptions = CountStatus(subs, {"canceled", "unpaid"})
           /\ health.activeSubscriptions + health.churnedSubscriptions
                 <= health.totalSubscriptions
           /\ RatioEqual(Ratio(health.monthlyRecurringRevenue.num * 100,
                               health.monthlyRecurringRevenue.den),
                         SumNormalized(active))


\* C34: nextBillingDate is the current_period_end of the first subscription,
\* in input order, whose status is active, and it is null exactly when no
\* subscription is active.
C34_NextBillingIsFirstActive ==
    insights # NoInsights =>
        LET subs == data.subscriptions
            activeAt == {i \in 1..Len(subs) : subs[i].status = "active"}
            next == insights.subscriptionHealth.nextBillingDate
        IN /\ next = Null <=> activeAt = {}
           /\ activeAt # {}
              => LET first == CHOOSE i \in activeAt : \A j \in activeAt : i <= j
                 IN next = toISOString(subs[first].current_period_end)

\* Two subscriptions are active and the first of them in the list is not the
\* one whose period ends soonest; its date is the one reported.
C34_Witness ==
    /\ insights # NoInsights
    /\ \E i, j \in 1..Len(data.subscriptions) :
          /\ i < j
          /\ data.subscriptions[i].status = "active"
          /\ data.subscriptions[j].status = "active"
          /\ \A k \in 1..(i - 1) : data.subscriptions[k].status # "active"
          /\ data.subscriptions[j].current_period_end
                < data.subscriptions[i].current_period_end
          /\ insights.subscriptionHealth.nextBillingDate
                = toISOString(data.subscriptions[i].current_period_end)
          /\ insights.subscriptionHealth.nextBillingDate
                # toISOString(data.subscriptions[j].current_period_end)


\* How often a payment method type occurs among the charges, and where first.
TypeCount(charges, type) ==
    Len(SelectSeq(charges, LAMBDA c : c.payment_method_type = type))
TypeFirst(charges, type) ==
    CHOOSE i \in 1..Len(charges) :
        /\ charges[i].payment_method_type = type
        /\ \A j \in 1..(i - 1) : charges[j].payment_method_type # type

\* C35: preferredPaymentMethod is null when no charge has a payment method
\* type; otherwise it is a type no other type occurs more often than, and
\* every other type that occurs as often is first met later in the list.
C35_PreferredPaymentMethod ==
    insights # NoInsights =>
        LET charges == data.charges
            types == {charges[i].payment_method_type : i \in 1..Len(charges)} \ {""}
            preferred == insights.paymentPattern.preferredPaymentMethod
        IN /\ preferred = Null <=> types = {}
           /\ types # {}
              => \E type \in types :
                    /\ preferred = Value(type)
                    /\ \A other \in types \ {type} :
                          \/ TypeCount(charges, other) < TypeCount(charges, type)
                          \/ /\ TypeCount(charges, other) = TypeCount(charges, type)
                             /\ TypeFirst(charges, type) < TypeFirst(charges, other)

\* After a reordering, two types occur equally often and the one met first
\* is preferred although it is not the first charge's.
C35_Witness ==
    /\ insights # NoInsights
    /\ changes > 0
    /\ Len(data.charges) >= 2
    /\ data.charges[1].payment_method_type = "us_bank_account"
    /\ TypeCount(data.charges, "card") = TypeCount(data.charges, "us_bank_account")
    /\ insights.paymentPattern.preferredPaymentMethod = Value("us_bank_account")


\* C36: whatever the order of the charges, firstPurchaseDate and
\* lastPurchaseDate are the dates of the earliest and of the latest created
\* among them, totalTransactions is their number, and daysSinceLastPurchase is
\* the number of whole days from the latest created to now.
C36_MetadataFromTimestamps ==
    (insights # NoInsights /\ data.charges # << >>) =>
        LET charges == data.charges
            times == {charges[i].created : i \in 1..Len(charges)}
            earliest == CHOOSE t \in times : \A u \in times : t <= u
            latest == CHOOSE t \in times : \A u \in times : t >= u
            meta == insights.metadata
        IN /\ meta.firstPurchaseDate = toISOString(earliest)
           /\ meta.lastPurchaseDate = toISOString(latest)
           /\ meta.totalTransactions = Len(charges)
           /\ meta.daysSinceLastPurchase # Null
           /\ meta.daysSinceLastPurchase.value * SecondsPerDay <= clock - latest
           /\ clock - latest < (meta.daysSinceLastPurchase.value + 1) * SecondsPerDay

\* The charges were reordered so that the list neither begins nor ends with
\* its earliest or its latest charge, and the latest is less than a day old.
C36_Witness ==
    /\ insights # NoInsights
    /\ changes > 0
    /\ Len(data.charges) >= 11
    /\ \E i, j \in 2..(Len(data.charges) - 1) :
          /\ \A k \in 1..Len(data.charges) :
                /\ data.charges[i].created <= data.charges[k].created
                /\ data.charges[j].created >= data.charges[k].created
          /\ insights.metadata.firstPurchaseDate = toISOString(data.charges[i].created)
          /\ insights.metadata.lastPurchaseDate = toISOString(data.charges[j].created)
          /\ clock - data.charges[j].created = 3600
    /\ insights.metadata.daysSinceLastPurchase = Value(0)
    /\ insights.metadata.totalTransactions = Len(data.charges)


\* The place of a factor's type in the order of evaluation, and the points
\* that go with a listed factor.
EvaluationOrder ==
    <<"payment_failures", "high_chargeback_rate", "new_customer_large_amount",
      "velocity_check">>
Place(type) == CHOOSE k \in 1..Len(EvaluationOrder) : EvaluationOrder[k] = type
PointsOf(factor) ==
    CASE factor.type = "payment_failures" ->
            (IF factor.severity = "high" THEN 30 ELSE 15)
      [] factor.type = "high_chargeback_rate" ->
            (IF factor.severity = "high" THEN 40 ELSE 20)
      [] factor.type = "new_customer_large_amount" -> 15
      [] factor.type = "velocity_check" -> 10
RECURSIVE SumPoints(_, _)
SumPoints(factors, n) ==
    IF n = 0 THEN 0 ELSE SumPoints(factors, n - 1) + PointsOf(factors[n])

\* C37: the factors listed are of the four types and stand in the order of
\* evaluation (payment_failures, high_chargeback_rate,
\* new_customer_large_amount, velocity_check), none twice; a type is listed
\* exactly when the data triggers it; and the score is the sum of the points
\* of the listed factors and of nothing else.
C37_FactorsInEvaluationOrder ==
    insights # NoInsights =>
        LET r == insights.riskAssessment
            n == Len(data.charges)
            listed(type) == FactorsOf(r.factors, type) # {}
        IN /\ \A i \in 1..Len(r.factors) :
                 \E k \in 1..Len(EvaluationOrder) : r.factors[i].type = EvaluationOrder[k]
           /\ \A i, j \in 1..Len(r.factors) :
                 i < j => Place(r.factors[i].type) < Place(r.factors[j].type)
           /\ listed("payment_failures") <=> Failed(data) * 10 > 3 * n
           /\ listed("high_chargeback_rate") <=> Disputed(data) >= 1
           /\ listed("new_customer_large_amount") <=> NewWithLarge(data, clock)
           /\ listed("velocity_check") <=> Rapid(data)
           /\ r.score = SumPoints(r.factors, Len(r.factors))

\* After the records changed, three factors are listed.
C37_Witness ==
    /\ changes > 0
    /\ insights # NoInsights
    /\ Len(insights.riskAssessment.factors) >= 3
    /\ insights.riskAssessment.factors[1].type # "payment_failures"
    /\ insights.riskAssessment.factors[Len(insights.riskAssessment.factors)].type
          = "velocity_check"
    /\ insights.riskAssessment.score >= 45


\* An active subscription, or a charge, among what Stripe holds for a customer.
HasActiveSubscription(id) ==
    \E i \in 1..Len(records[id].subscriptions) :
        records[id].subscriptions[i].status = "active"
HasCharge(id) == Len(records[id].charges) >= 1

\* The status the analysis of a customer ends with.
StatusFor(analysis) ==
    IF analysis.charges.settled = "rejected" \/ analysis.subscriptions.settled = "rejected"
    THEN "unknown"
    ELSE IF HasActiveSubscription(analysis.customerId) THEN "vip"
    ELSE IF HasCharge(analysis.customerId) THEN "active"
    ELSE "new"

\* C38: when an analysis of a customer ends, the status shown is unknown if one
\* of its two requests failed, else vip if Stripe holds an active subscription
\* of the customer (with or without charges), else active if it holds a charge,
\* else new; and loading is false afterwards. An analysis ends only once a
\* request failed or both were answered.
C38_BadgeStatus ==
    [][\A a \in Analyses :
          (a <= Len(analyses) /\ analyses[a].pc = "awaiting"
             /\ a <= Len(analyses') /\ analyses'[a].pc = "done")
          => /\ AnyRejected(analyses[a]) \/ AllFulfilled(analyses[a])
             /\ statusInfo' # Null
             /\ statusInfo'.status = StatusFor(analyses[a])
             /\ loading' = FALSE]_vars

\* The first analysis ended after one of its requests failed; the second, of
\* a customer with two charges, a canceled and an active subscription, ended
\* with vip.
C38_Witness ==
    /\ Len(analyses) = 2
    /\ analyses[1].pc = "done" /\ AnyRejected(analyses[1])
    /\ analyses[2].pc = "done" /\ AllFulfilled(analyses[2])
    /\ HasCharge(analyses[2].customerId)
    /\ Len(records[analyses[2].customerId].subscriptions) = 2
    /\ statusInfo # Null
    /\ statusInfo.status = "vip"
    /\ loading = FALSE

=============================================================================
